---- MODULE Spec2Model ----
(***************************************************************************)
(* Model of the capability-and-consent control plane of omniscient-shell.  *)
(*                                                                         *)
(*   agents/capabilities.rs   Capability, CapabilityGrant,                 *)
(*                            CapabilityManager                            *)
(*   oauth/vault.rs           TokenVault                                   *)
(*   oauth/consent.rs         ConsentLedger                                *)
(*   oauth/broker.rs          OAuthBroker                                  *)
(*   agents/runtime.rs        AgentRuntime                                 *)
(*   agents/event_protocol.rs Event                                        *)
(*   agents/manifest.rs       Manifest                                     *)
(*                                                                         *)
(* Option<T> is modelled as a set with at most one element: None is {},    *)
(* Some(x) is {x}.  SystemTime is a natural number `now` that only the     *)
(* Tick action advances.  A capability string is the sequence of its       *)
(* segments, each "." or a run of other characters: "files.read" is        *)
(* <<"files", ".", "read">>.                                               *)
(***************************************************************************)
EXTENDS Integers, Sequences, FiniteSets

\* ------------------------------------------------------------------ bounds

\* the clock runs from 0 to MaxTime
MaxTime == 2
\* grant() is called at most MaxGrants times in one behaviour
MaxGrants == 2
\* durations passed to grant(): None, Some(0) or Some(MaxDur)
MaxDur == 1
\* tasks that call the TokenVault concurrently
NumTasks == 2
\* log_grant, log_revoke and log_deny are called at most MaxEntries times in all
MaxEntries == 2
\* the strings passed to Capability::parse have at most MaxSegments segments
MaxSegments == 5
\* the tasks that interleave at their lock steps make at most MaxCalls calls in
\* all, and so do the tasks that call AgentRuntime::execute
MaxCalls == 2

\* ------------------------------------------------------------------ values

None == {}

Some(x) == {x}

\* Capability::new(scope, action)
Capability_new(scope, action) == [scope |-> scope, action |-> action]

\* the capabilities the callers use: same scope, different actions
Caps ==
    { Capability_new("files", "read"),
      Capability_new("files", "write") }

\* Option<Duration> arguments of grant()
Durations == {None, Some(0), Some(MaxDur)}

\* the tasks that call the components
Tasks == 1..NumTasks

VARIABLES
    now,        \* SystemTime::now()
    grants,     \* CapabilityManager.grants : Vec<CapabilityGrant>
    issued,     \* number of CapabilityGrant values constructed so far
    cap_ret,    \* the value the last CapabilityManager call returned
    cap_hist,   \* per capability: what the callers have done with it so far
    grant_pc,   \* the grant() calls in flight: the grant each has built and not pushed yet
    active_pc,  \* per task: Some(the position and the result so far of its active_grants call)
    backend,          \* TokenVault.backend
    in_memory_store,  \* TokenVault.in_memory_store : HashMap<String, String>
    locked,           \* TokenVault.locked
    keychain,         \* the OS keychain's entries of service "omniscient-shell"
    vault_pc,         \* per task: the TokenVault call it is inside, past the lock check
    vault_ret,        \* the value the last TokenVault call returned
    vault_hist,       \* per label: what the completed calls have done to it
    vault_snap,       \* Some(entries at the last lock()) until a store or delete succeeds
    entries,          \* ConsentLedger.entries : Vec<ConsentEntry>
    ledger_pc,        \* per task: Some(the ConsentEntry it built and has not pushed yet)
    ledger_ret,       \* the value the last ConsentLedger call returned
    runtime,          \* Some(what AgentRuntime::new() returned: Ok(runtime) or Err), None when none is built
    exec_pc,          \* per AgentRuntime::execute call in flight: its arguments and loop position
    exec_ret,         \* the value the last AgentRuntime::execute call returned, pending once a call has started since
    executes,         \* the number of AgentRuntime::execute calls made so far
    exec_hist,        \* per agent_id: Some(the greatest sequence of the events returned so far)
    providers,        \* OAuthBroker.providers : HashMap<String, ProviderConfig>
    uuids,            \* the handle ids Uuid::new_v4() has returned so far
    broker_pc,        \* per task: the OAuthBroker call it is inside, past the vault's lock check
    broker_ret,       \* the value the last OAuthBroker call returned
    parse_ret,        \* the last call of Capability::parse: its argument and its result
    fs,               \* the file system: what each agent directory's path holds
    manifest_ret,     \* the last call of Manifest::load or validate: its argument and its result
    agents,           \* AgentRegistry.agents : HashMap<String, AgentInfo>
    registry_ret,     \* the value the last AgentRegistry call returned, with its argument
    discover_pc,      \* per task: Some(the path and the directory entries its discover call has yet to visit)
    rwlock,           \* per RwLock: the guards that are held and the tasks queued for one
    task_pc,          \* per task: what is left of the steps of the call it is inside
    calls             \* the calls the tasks have made at the grain of their lock steps

capVars == <<now, grants, issued, cap_ret, cap_hist, grant_pc, active_pc>>

vaultVars ==
    <<backend, in_memory_store, locked, keychain, vault_pc, vault_ret, vault_hist,
      vault_snap>>

ledgerVars == <<entries, ledger_pc, ledger_ret>>

runtimeVars == <<runtime, exec_pc, exec_ret, exec_hist, executes>>

brokerVars == <<providers, uuids, broker_pc, broker_ret>>

parseVars == <<parse_ret>>

\* the variables of the components added after the broker
manifestVars == <<fs, manifest_ret>>

registryVars == <<agents, registry_ret, discover_pc>>

\* the variables that follow the calls through their lock acquisitions
lockVars == <<rwlock, task_pc, calls>>

agentVars == <<parseVars, manifestVars, registryVars, lockVars>>

vars == <<capVars, vaultVars, ledgerVars, runtimeVars, brokerVars, agentVars>>

\* ------------------------------------------------- agents/capabilities.rs

\* faulty variant of Capability_eq: the action is not compared
Capability_eq_scope_only(a, b) == a.scope = b.scope

\* #[derive(PartialEq)] on Capability: both fields are compared
Capability_eq(a, b) == a.scope = b.scope /\ a.action = b.action

\* faulty variant of CapabilityGrant_new: the duration is dropped
CapabilityGrant_new_no_expiry(capability, duration, id) ==
    [ capability |-> capability,
      granted_at |-> now,
      expires_at |-> None,
      revoked    |-> FALSE,
      id         |-> id ]

\* CapabilityGrant::new.  The field `id` is not a field of the struct: it is
\* the identity of the grant object, kept to follow one grant through
\* Vec::retain, which moves the survivors to new indices.
CapabilityGrant_new(capability, duration, id) ==
    [ capability |-> capability,
      granted_at |-> now,
      expires_at |-> {now + d : d \in duration},
      revoked    |-> FALSE,
      id         |-> id ]

\* faulty variants of is_valid: the revoked flag is not read; a grant is
\* already invalid at its expires_at
is_valid_ignores_revoked(g, t) ==
    IF \E e \in g.expires_at : t > e THEN FALSE ELSE TRUE

is_valid_strict_expiry(g, t) ==
    IF g.revoked THEN FALSE
    ELSE IF \E e \in g.expires_at : t >= e THEN FALSE
    ELSE TRUE

\* CapabilityGrant::is_valid, read at time t
is_valid(g, t) ==
    IF g.revoked THEN FALSE
    ELSE IF \E e \in g.expires_at : t > e THEN FALSE
    ELSE TRUE

\* CapabilityGrant::revoke
CapabilityGrant_revoke(g) == [g EXCEPT !.revoked = TRUE]

\* the iterator expression of CapabilityManager::check
check_any(gs, t, capability) ==
    \E i \in DOMAIN gs :
        Capability_eq(gs[i].capability, capability) /\ is_valid(gs[i], t)

\* faulty variant of revoke_loop: it stops at the first grant it revokes
revoke_loop_first_only(gs, capability) ==
    LET hits == {i \in DOMAIN gs :
                    Capability_eq(gs[i].capability, capability) /\ ~gs[i].revoked}
    IN  [i \in DOMAIN gs |->
            IF i \in hits /\ \A j \in hits : i <= j
            THEN CapabilityGrant_revoke(gs[i])
            ELSE gs[i]]

\* faulty variant of revoke_loop: every unrevoked grant is revoked, whatever
\* its capability
revoke_loop_all(gs, capability) ==
    [i \in DOMAIN gs |->
        IF ~gs[i].revoked THEN CapabilityGrant_revoke(gs[i]) ELSE gs[i]]

\* the loop of CapabilityManager::revoke: the list it leaves
revoke_loop(gs, capability) ==
    [i \in DOMAIN gs |->
        IF Capability_eq(gs[i].capability, capability) /\ ~gs[i].revoked
        THEN CapabilityGrant_revoke(gs[i])
        ELSE gs[i]]

\* faulty variant of revoke_flag: an expired grant does not count
revoke_flag_needs_valid(gs, capability) ==
    \E i \in DOMAIN gs :
        Capability_eq(gs[i].capability, capability) /\ is_valid(gs[i], now)

\* the flag `revoked` the loop of CapabilityManager::revoke leaves
revoke_flag(gs, capability) ==
    \E i \in DOMAIN gs :
        Capability_eq(gs[i].capability, capability) /\ ~gs[i].revoked

\* faulty variant of cleanup_retain: what the name of cleanup_expired suggests,
\* only the valid grants are kept
cleanup_retain_valid_only(gs, t) == SelectSeq(gs, LAMBDA g : is_valid(g, t))

\* the predicate of retain() in CapabilityManager::cleanup_expired
cleanup_retain(gs, t) == SelectSeq(gs, LAMBDA g : is_valid(g, t) \/ ~g.revoked)

\* what a caller has done with one capability
NoHistory ==
    [ granted    |-> FALSE,   \* grant() was called for it
      sole       |-> None,    \* Some([t, d]): grant(c, d) at time t is the only
                              \* call made for it (no second grant, no revoke)
      revoked_ok |-> FALSE,   \* a revoke() succeeded and no grant() followed
      forever    |-> FALSE ]  \* grant(c, None) was made and no revoke() followed

CapRet(op, capability, ok, val) ==
    [op |-> op, cap |-> capability, ok |-> ok, val |-> val]

\* a CapabilityManager call leaves the TokenVault alone
CapFrame == UNCHANGED <<vaultVars, ledgerVars, runtimeVars, brokerVars, agentVars>>

\* no task holds a read guard of `grants` across a suspension
NoReaders == [t \in Tasks |-> None]

\* CapabilityManager::new
CapInit ==
    /\ now = 0
    /\ grants = <<>>
    /\ issued = 0
    /\ cap_ret = CapRet("new", None, TRUE, <<>>)
    /\ cap_hist = [c \in Caps |-> NoHistory]
    /\ grant_pc = {}
    /\ active_pc = NoReaders

\* CapabilityManager::grant, its first statement: CapabilityGrant::new reads
\* the clock and builds the grant before `self.grants.write().await`, where
\* the call may be suspended.  MaxGrants bounds the calls of one behaviour.
grant(capability, duration) ==
    /\ issued < MaxGrants
    /\ grant_pc' = grant_pc \cup
            {[duration |-> duration,
              grant |-> CapabilityGrant_new(capability, duration, issued + 1)]}
    /\ issued' = issued + 1
    /\ UNCHANGED <<now, grants, cap_ret, cap_hist, active_pc>>
    /\ CapFrame

\* what the callers have done with a capability once the grant of the call pc
\* is pushed
pushed(history, pc) ==
    [ granted    |-> TRUE,
      sole       |-> IF history.granted THEN None
                     ELSE Some([t |-> pc.grant.granted_at, d |-> pc.duration]),
      revoked_ok |-> FALSE,
      forever    |-> history.forever \/ pc.duration = None ]

\* faulty variant of grants_push: a grant for a capability that already has an
\* unrevoked grant takes the place of the first such grant
grants_push_deduplicates(pc) ==
    LET g == pc.grant
        same == {i \in DOMAIN grants :
                    Capability_eq(grants[i].capability, g.capability) /\ ~grants[i].revoked}
    IN  /\ pc \in grant_pc
        /\ active_pc = NoReaders
        /\ grants' = IF same = {} THEN Append(grants, g)
                      ELSE [grants EXCEPT ![CHOOSE i \in same : \A j \in same : i <= j] = g]
        /\ grant_pc' = grant_pc \ {pc}
        /\ cap_ret' = CapRet("grant", Some(g.capability), TRUE, <<>>)
        /\ cap_hist' = [cap_hist EXCEPT ![g.capability] = pushed(@, pc)]
        /\ UNCHANGED <<now, issued, active_pc>>
        /\ CapFrame

\* the rest of CapabilityManager::grant: once the write lock is held, which
\* waits for the read guard of an active_grants call, `grants.push(grant)`,
\* then Ok(())
grants_push(pc) ==
    /\ pc \in grant_pc
    /\ active_pc = NoReaders
    /\ grants' = Append(grants, pc.grant)
    /\ grant_pc' = grant_pc \ {pc}
    /\ cap_ret' = CapRet("grant", Some(pc.grant.capability), TRUE, <<>>)
    /\ cap_hist' = [cap_hist EXCEPT ![pc.grant.capability] = pushed(@, pc)]
    /\ UNCHANGED <<now, issued, active_pc>>
    /\ CapFrame

\* CapabilityManager::check.  is_valid reads the clock once for each grant it
\* is asked about; a grant that is valid at one reading was valid at the
\* readings before it, so what `any` returns is what it returns with every
\* reading made at one instant of the call, the one of this step.
check(capability) ==
    /\ cap_ret' = CapRet("check", Some(capability), check_any(grants, now, capability), <<>>)
    /\ UNCHANGED <<now, grants, issued, cap_hist, grant_pc, active_pc>>
    /\ CapFrame

\* CapabilityManager::revoke, under the write lock
revoke(capability) ==
    LET revoked == revoke_flag(grants, capability)
    IN  /\ active_pc = NoReaders
        /\ grants' = revoke_loop(grants, capability)
        /\ cap_ret' = CapRet("revoke", Some(capability), revoked, <<>>)
        /\ cap_hist' = [cap_hist EXCEPT ![capability] =
                [ granted    |-> TRUE,
                  sole       |-> None,
                  revoked_ok |-> @.revoked_ok \/ revoked,
                  forever    |-> FALSE ]]
        /\ UNCHANGED <<now, issued, grant_pc, active_pc>>
        /\ CapFrame

\* CapabilityManager::active_grants up to its filter: the read lock is taken,
\* which other tasks' read guards do not keep from it; of an empty list the
\* result is the empty list.  `since` is the time of the call, which the code
\* does not keep.
active_grants(t) ==
    /\ active_pc[t] = None
    /\ IF grants = <<>>
       THEN /\ cap_ret' = CapRet("active_grants", None, TRUE, <<>>)
            /\ UNCHANGED active_pc
       ELSE /\ active_pc' = [active_pc EXCEPT ![t] = Some([i |-> 1, val |-> <<>>, since |-> now])]
            /\ UNCHANGED cap_ret
    /\ UNCHANGED <<now, grants, issued, cap_hist, grant_pc>>
    /\ CapFrame

\* one turn of filter(|g| g.is_valid()) in CapabilityManager::active_grants:
\* is_valid reads the clock for the grant at hand, and a valid grant is cloned
\* into the result; after the last grant the call returns the result
active_grants_filter(t) ==
    \E pc \in active_pc[t] :
        LET val == IF is_valid(grants[pc.i], now)
                   THEN Append(pc.val, grants[pc.i]) ELSE pc.val
        IN  /\ IF pc.i = Len(grants)
               THEN /\ active_pc' = [active_pc EXCEPT ![t] = None]
                    /\ cap_ret' = CapRet("active_grants", None, TRUE, val)
               ELSE /\ active_pc' = [active_pc EXCEPT ![t] = Some([pc EXCEPT !.i = @ + 1, !.val = val])]
                    /\ UNCHANGED cap_ret
            /\ UNCHANGED <<now, grants, issued, cap_hist, grant_pc>>
            /\ CapFrame

\* CapabilityManager::cleanup_expired, under the write lock.  What retain
\* keeps does not depend on the reading of the clock.
cleanup_expired ==
    /\ active_pc = NoReaders
    /\ grants' = cleanup_retain(grants, now)
    /\ cap_ret' = CapRet("cleanup_expired", None, TRUE, <<>>)
    /\ UNCHANGED <<now, issued, cap_hist, grant_pc, active_pc>>
    /\ CapFrame

\* the passage of time, between two calls and between two steps of a call
Tick ==
    /\ now < MaxTime
    /\ now' = now + 1
    /\ UNCHANGED <<grants, issued, cap_ret, cap_hist, grant_pc, active_pc>>
    /\ CapFrame

CapNext ==
    \/ \E c \in Caps, d \in Durations : grant(c, d)
    \/ \E pc \in grant_pc : grants_push(pc)
    \/ \E c \in Caps : check(c)
    \/ \E c \in Caps : revoke(c)
    \/ \E t \in Tasks : active_grants(t)
    \/ \E t \in Tasks : active_grants_filter(t)
    \/ cleanup_expired
    \/ Tick

\* ---------------------------------------------------------- oauth/vault.rs

\* VaultBackend; the path of EncryptedSqlite is never read
Backends == {"OsKeychain", "EncryptedSqlite", "InMemory"}

\* labels and tokens the callers use
Labels == {"test", "test2"}

Tokens == {"value", "value2"}

\* HashMap::new
HashMap_new == [l \in {} |-> ""]

\* faulty variant of HashMap_insert: a present key keeps its value
HashMap_insert_if_absent(m, k, v) ==
    [l \in DOMAIN m \cup {k} |-> IF l \in DOMAIN m THEN m[l] ELSE v]

\* HashMap::insert: the map it leaves
HashMap_insert(m, k, v) ==
    [l \in DOMAIN m \cup {k} |-> IF l = k THEN v ELSE m[l]]

\* HashMap::remove: the map it leaves
HashMap_remove(m, k) == [l \in DOMAIN m \ {k} |-> m[l]]

\* HashMap::get(..).cloned()
HashMap_get(m, k) == IF k \in DOMAIN m THEN Some(m[k]) ELSE None

\* Result values: Ok(val) or an error of some kind
VaultRet(op, label, kind, val) ==
    [op |-> op, label |-> label, kind |-> kind, val |-> val]

\* a task outside every TokenVault call
Idle == [op |-> "idle", label |-> None, token |-> None]

\* the OAuthBroker calls that store a secret and return its handle
RequestOps == {"request_token_pkce", "request_token_device_code"}

\* what the completed calls have done to one label
Untouched ==
    [ secret      |-> None,    \* Some(secret of the last store not followed by a delete)
      overwritten |-> FALSE,   \* that store replaced an earlier secret
      handle      |-> None,    \* Some(handle a request has returned for the label, no
                               \* delete of the label, revoke's included, done since)
      replaced    |-> FALSE ]  \* a store has replaced the secret of that request

\* the entries fetch() reads: the keychain's or the map's
vault_entries == IF backend = "OsKeychain" THEN keychain ELSE in_memory_store

\* a TokenVault call leaves the CapabilityManager, the ledger and the runtime
\* alone; the broker calls the vault, so its state is framed by the caller
VaultFrame == UNCHANGED <<capVars, ledgerVars, runtimeVars, agentVars>>

\* a TokenVault call that no OAuthBroker call has made
Direct == UNCHANGED brokerVars

\* a TokenVault call of task t that no OAuthBroker call has made
DirectBy(t) == broker_pc[t].op = "idle" /\ UNCHANGED brokerVars

\* TokenVault::new_os_keychain, new_encrypted_sqlite, new_in_memory
VaultInit ==
    /\ backend \in Backends
    /\ in_memory_store = HashMap_new
    /\ locked = FALSE
    /\ keychain = HashMap_new
    /\ vault_pc = [t \in Tasks |-> Idle]
    /\ vault_ret = VaultRet("new", None, "Ok", None)
    /\ vault_hist = [l \in Labels |-> Untouched]
    /\ vault_snap = None

\* faulty variant of lock_check: the flag is not read
lock_check_skipped(t, op, label, token) ==
    /\ vault_pc[t] = Idle
    /\ vault_pc' = [vault_pc EXCEPT ![t] = [op |-> op, label |-> Some(label), token |-> token]]
    /\ UNCHANGED <<backend, in_memory_store, locked, keychain, vault_ret, vault_hist, vault_snap>>
    /\ VaultFrame

\* `if *self.locked.read().await { bail!("Vault is locked") }`: the call
\* returns the error, or goes on.  The read guard is dropped at the end of the
\* condition, so what follows in the call runs as a later step.
lock_check(t, op, label, token) ==
    /\ vault_pc[t] = Idle
    /\ IF locked
       THEN /\ vault_ret' = VaultRet(op, Some(label), "Locked", None)
            /\ UNCHANGED vault_pc
       ELSE /\ vault_pc' = [vault_pc EXCEPT ![t] =
                    [op |-> op, label |-> Some(label), token |-> token]]
            /\ UNCHANGED vault_ret
    /\ UNCHANGED <<backend, in_memory_store, locked, keychain, vault_hist, vault_snap>>
    /\ VaultFrame

\* TokenVault::store, up to the lock check
store_begin(t, label, token) == lock_check(t, "store", label, Some(token))

\* TokenVault::store, the match on the backend
store_body(t) ==
    /\ vault_pc[t].op = "store"
    /\ \E label \in vault_pc[t].label, token \in vault_pc[t].token :
        /\ IF backend = "OsKeychain"
           THEN /\ keychain' = HashMap_insert(keychain, label, token)
                /\ UNCHANGED in_memory_store
           ELSE /\ in_memory_store' = HashMap_insert(in_memory_store, label, token)
                /\ UNCHANGED keychain
        /\ vault_ret' = VaultRet("store", Some(label), "Ok", None)
        /\ vault_hist' = [vault_hist EXCEPT ![label] =
                [ secret      |-> Some(token),
                  overwritten |-> @.secret # None,
                  handle      |-> IF broker_pc[t].op \in RequestOps
                                  THEN broker_pc[t].handle ELSE @.handle,
                  replaced    |-> broker_pc[t].op \notin RequestOps /\ @.handle # None ]]
    /\ vault_snap' = None
    /\ vault_pc' = [vault_pc EXCEPT ![t] = Idle]
    /\ UNCHANGED <<backend, locked>>
    /\ VaultFrame

\* TokenVault::fetch, up to the lock check
fetch_begin(t, label) == lock_check(t, "fetch", label, None)

\* what the match on the backend in TokenVault::fetch returns:
\* keyring's get_password fails with NoEntry, the map's get with "Token not found"
fetch_match(label) ==
    LET found == IF backend = "OsKeychain"
                 THEN HashMap_get(keychain, label)
                 ELSE HashMap_get(in_memory_store, label)
    IN  IF found # None
        THEN VaultRet("fetch", Some(label), "Ok", found)
        ELSE VaultRet("fetch", Some(label),
                      IF backend = "OsKeychain" THEN "NoEntry" ELSE "NotFound", None)

\* TokenVault::fetch, the match on the backend
fetch_body(t) ==
    /\ vault_pc[t].op = "fetch"
    /\ \E label \in vault_pc[t].label : vault_ret' = fetch_match(label)
    /\ vault_pc' = [vault_pc EXCEPT ![t] = Idle]
    /\ UNCHANGED <<backend, in_memory_store, locked, keychain, vault_hist, vault_snap>>
    /\ VaultFrame

\* TokenVault::delete, up to the lock check
delete_begin(t, label) == lock_check(t, "delete", label, None)

\* TokenVault::delete, the match on the backend: keyring's delete_credential
\* fails with NoEntry when there is no entry, HashMap::remove does not fail
delete_body(t) ==
    /\ vault_pc[t].op = "delete"
    /\ \E label \in vault_pc[t].label :
        IF backend = "OsKeychain" /\ label \notin DOMAIN keychain
        THEN /\ vault_ret' = VaultRet("delete", Some(label), "NoEntry", None)
             /\ UNCHANGED <<in_memory_store, keychain, vault_hist, vault_snap>>
        ELSE /\ IF backend = "OsKeychain"
                THEN /\ keychain' = HashMap_remove(keychain, label)
                     /\ UNCHANGED in_memory_store
                ELSE /\ in_memory_store' = HashMap_remove(in_memory_store, label)
                     /\ UNCHANGED keychain
             /\ vault_ret' = VaultRet("delete", Some(label), "Ok", None)
             /\ vault_hist' = [vault_hist EXCEPT ![label] = Untouched]
             /\ vault_snap' = None
    /\ vault_pc' = [vault_pc EXCEPT ![t] = Idle]
    /\ UNCHANGED <<backend, locked>>
    /\ VaultFrame

\* faulty variant of lock: locking empties the backing store
lock_purges(t) ==
    /\ vault_pc[t] = Idle
    /\ locked' = TRUE
    /\ in_memory_store' = HashMap_new
    /\ keychain' = HashMap_new
    /\ vault_ret' = VaultRet("lock", None, "Ok", None)
    /\ vault_snap' = Some(vault_entries)
    /\ UNCHANGED <<backend, vault_pc, vault_hist>>
    /\ VaultFrame

\* TokenVault::lock
lock(t) ==
    /\ vault_pc[t] = Idle
    /\ locked' = TRUE
    /\ vault_ret' = VaultRet("lock", None, "Ok", None)
    /\ vault_snap' = Some(vault_entries)
    /\ UNCHANGED <<backend, in_memory_store, keychain, vault_pc, vault_hist>>
    /\ VaultFrame

\* faulty variant of unlock: the flag is flipped, not cleared
unlock_toggles(t) ==
    /\ vault_pc[t] = Idle
    /\ locked' = ~locked
    /\ vault_ret' = VaultRet("unlock", None, "Ok", None)
    /\ UNCHANGED <<backend, in_memory_store, keychain, vault_pc, vault_hist, vault_snap>>
    /\ VaultFrame

\* TokenVault::unlock
unlock(t) ==
    /\ vault_pc[t] = Idle
    /\ locked' = FALSE
    /\ vault_ret' = VaultRet("unlock", None, "Ok", None)
    /\ UNCHANGED <<backend, in_memory_store, keychain, vault_pc, vault_hist, vault_snap>>
    /\ VaultFrame

\* TokenVault::is_locked
is_locked(t) ==
    /\ vault_pc[t] = Idle
    /\ vault_ret' = VaultRet("is_locked", None, "Ok", Some(locked))
    /\ UNCHANGED <<backend, in_memory_store, locked, keychain, vault_pc, vault_hist, vault_snap>>
    /\ VaultFrame

\* TokenVault::rotate_keys: both arms only log
rotate_keys(t) ==
    /\ vault_pc[t] = Idle
    /\ vault_ret' = VaultRet("rotate_keys", None, "Ok", None)
    /\ UNCHANGED <<backend, in_memory_store, locked, keychain, vault_pc, vault_hist, vault_snap>>
    /\ VaultFrame

VaultNext ==
    \/ \E t \in Tasks, l \in Labels, k \in Tokens : store_begin(t, l, k) /\ DirectBy(t)
    \/ \E t \in Tasks : store_body(t) /\ DirectBy(t)
    \/ \E t \in Tasks, l \in Labels : fetch_begin(t, l) /\ DirectBy(t)
    \/ \E t \in Tasks : fetch_body(t) /\ DirectBy(t)
    \/ \E t \in Tasks, l \in Labels : delete_begin(t, l) /\ DirectBy(t)
    \/ \E t \in Tasks : delete_body(t) /\ DirectBy(t)
    \/ \E t \in Tasks : lock(t) /\ Direct
    \/ \E t \in Tasks : unlock(t) /\ Direct
    \/ \E t \in Tasks : is_locked(t) /\ Direct
    \/ \E t \in Tasks : rotate_keys(t) /\ Direct

\* --------------------------------------------------------- oauth/broker.rs

\* the provider name and the configuration the callers use
ProviderNames == {"test"}

ProviderConfigs ==
    { [ client_id |-> "test-client", auth_url |-> "https://example.com/auth",
        token_url |-> "https://example.com/token", device_auth_url |-> d,
        scopes |-> <<"read">> ] : d \in {None, Some("https://example.com/device")} }

ScopeLists == { <<"read">> }

\* TokenHandle { id, provider, scopes }
TokenHandle(id, provider, scopes) == [id |-> id, provider |-> provider, scopes |-> scopes]

\* the handles callers pass to revoke, get_token and refresh: TokenHandle is a
\* public struct, so also handles the broker never returned
Handles == {TokenHandle(id, p, sc) : id \in Labels, p \in ProviderNames, sc \in ScopeLists}

\* a task outside every OAuthBroker call
BrokerIdle == [op |-> "idle", handle |-> None]

\* Result values: Ok(handle), Ok(secret), Ok(()), or an error; handle is the
\* handle returned, or the argument of get_token, revoke and refresh
BrokerRet(op, handle, kind, val) ==
    [op |-> op, handle |-> handle, kind |-> kind, val |-> val]

\* an OAuthBroker call leaves everything but the broker and its vault alone
BrokerFrame == UNCHANGED <<capVars, ledgerVars, runtimeVars, agentVars>>

\* OAuthBroker::new
BrokerInit ==
    /\ providers = HashMap_new
    /\ uuids = {}
    /\ broker_pc = [t \in Tasks |-> BrokerIdle]
    /\ broker_ret = BrokerRet("new", None, "Ok", None)

\* faulty variant of vault_call: the vault's refusal is not returned
vault_call_unchecked(t, op, handle) ==
    /\ broker_pc[t] = BrokerIdle
    /\ broker_pc' = [broker_pc EXCEPT ![t] = [op |-> op, handle |-> Some(handle)]]
    /\ UNCHANGED broker_ret

\* the broker calls into the vault: when the vault's lock check refuses, `?`
\* returns its error from the broker's call, and a request drops the handle
\* it has built; otherwise the call goes on
vault_call(t, op, handle) ==
    /\ broker_pc[t] = BrokerIdle
    /\ IF locked
       THEN /\ broker_ret' = BrokerRet(op, IF op = "request_token_pkce" THEN None
                                           ELSE Some(handle), "Locked", None)
            /\ UNCHANGED broker_pc
       ELSE /\ broker_pc' = [broker_pc EXCEPT ![t] = [op |-> op, handle |-> Some(handle)]]
            /\ UNCHANGED broker_ret

\* the positions of request_token_device_code after its first step: the call
\* holds the read guard on providers from its first line to its return
DeviceOps == {"device_authorization", "request_token_device_code"}

\* OAuthBroker::register_provider: providers.write().await waits for the read
\* guards of the device-code calls under way
register_provider(name, config) ==
    /\ \A t \in Tasks : broker_pc[t].op \notin DeviceOps
    /\ providers' = HashMap_insert(providers, name, config)
    /\ broker_ret' = BrokerRet("register_provider", None, "Ok", None)
    /\ UNCHANGED <<uuids, broker_pc, vaultVars>>
    /\ BrokerFrame

\* faulty variant of request_token_device_code: providers is not read
request_token_device_code_unchecked(t, provider, scopes) ==
    /\ broker_pc[t] = BrokerIdle
    /\ broker_pc' = [broker_pc EXCEPT ![t] =
            [op |-> "device_authorization", provider |-> provider, scopes |-> scopes]]
    /\ UNCHANGED <<providers, uuids, broker_ret, vaultVars>>
    /\ BrokerFrame

\* OAuthBroker::request_token_device_code up to the device authorization
\* request: the provider lookup, whose miss `?` returns; the client, whose
\* exchange_device_code() is an error without a device authorization URL (the
\* URLs of ProviderConfigs all parse); then the request is awaited
request_token_device_code(t, provider, scopes) ==
    /\ broker_pc[t] = BrokerIdle
    /\ LET config == HashMap_get(providers, provider)
       IN  IF config = None
           THEN /\ broker_ret' = BrokerRet("request_token_device_code", None, "NotFound", None)
                /\ UNCHANGED broker_pc
           ELSE IF \E c \in config : c.device_auth_url = None
           THEN /\ broker_ret' = BrokerRet("request_token_device_code", None, "Configuration", None)
                /\ UNCHANGED broker_pc
           ELSE /\ broker_pc' = [broker_pc EXCEPT ![t] =
                        [op |-> "device_authorization", provider |-> provider, scopes |-> scopes]]
                /\ UNCHANGED broker_ret
    /\ UNCHANGED <<providers, uuids, vaultVars>>
    /\ BrokerFrame

\* OAuthBroker::request_token_device_code, the device authorization request
\* comes back: its error `?` returns; otherwise the handle gets a fresh
\* Uuid::new_v4() and vault.store runs up to its lock check
device_authorization(t) ==
    /\ broker_pc[t].op = "device_authorization"
    /\ \/ /\ broker_ret' = BrokerRet("request_token_device_code", None, "Request", None)
          /\ broker_pc' = [broker_pc EXCEPT ![t] = BrokerIdle]
          /\ UNCHANGED <<providers, uuids, vaultVars>>
          /\ BrokerFrame
       \/ \E id \in Labels \ uuids :
            LET handle == TokenHandle(id, broker_pc[t].provider, broker_pc[t].scopes)
            IN  /\ uuids' = uuids \cup {id}
                /\ IF locked
                   THEN /\ broker_ret' = BrokerRet("request_token_device_code", None, "Locked", None)
                        /\ broker_pc' = [broker_pc EXCEPT ![t] = BrokerIdle]
                   ELSE /\ broker_pc' = [broker_pc EXCEPT ![t] =
                                [op |-> "request_token_device_code", handle |-> Some(handle)]]
                        /\ UNCHANGED broker_ret
                /\ store_begin(t, id, "placeholder-token")
                /\ UNCHANGED providers

\* OAuthBroker::request_token_device_code, the rest: vault.store's backend
\* write, then Ok(handle)
request_token_device_code_body(t) ==
    /\ broker_pc[t].op = "request_token_device_code"
    /\ store_body(t)
    /\ broker_ret' = BrokerRet("request_token_device_code", broker_pc[t].handle, vault_ret'.kind, None)
    /\ broker_pc' = [broker_pc EXCEPT ![t] = BrokerIdle]
    /\ UNCHANGED <<providers, uuids>>

\* OAuthBroker::request_token_pkce up to the lock check of vault.store: the
\* handle gets a fresh Uuid::new_v4(); providers is not read
request_token_pkce(t, provider, scopes) ==
    \E id \in Labels \ uuids :
        /\ uuids' = uuids \cup {id}
        /\ vault_call(t, "request_token_pkce", TokenHandle(id, provider, scopes))
        /\ store_begin(t, id, "placeholder-token")
        /\ UNCHANGED providers

\* faulty variant of request_token_pkce_body: Ok(handle) with nothing stored
request_token_pkce_body_unstored(t) ==
    /\ broker_pc[t].op = "request_token_pkce"
    /\ vault_pc' = [vault_pc EXCEPT ![t] = Idle]
    /\ broker_ret' = BrokerRet("request_token_pkce", broker_pc[t].handle, "Ok", None)
    /\ broker_pc' = [broker_pc EXCEPT ![t] = BrokerIdle]
    /\ UNCHANGED <<providers, uuids, backend, in_memory_store, locked, keychain,
                   vault_ret, vault_hist, vault_snap>>
    /\ BrokerFrame

\* OAuthBroker::request_token_pkce, the rest: vault.store's backend write,
\* then Ok(handle)
request_token_pkce_body(t) ==
    /\ broker_pc[t].op = "request_token_pkce"
    /\ store_body(t)
    /\ broker_ret' = BrokerRet("request_token_pkce", broker_pc[t].handle, vault_ret'.kind, None)
    /\ broker_pc' = [broker_pc EXCEPT ![t] = BrokerIdle]
    /\ UNCHANGED <<providers, uuids>>

\* OAuthBroker::refresh: logs and returns Ok(())
refresh(handle) ==
    /\ broker_ret' = BrokerRet("refresh", Some(handle), "Ok", None)
    /\ UNCHANGED <<providers, uuids, broker_pc, vaultVars>>
    /\ BrokerFrame

\* OAuthBroker::revoke up to the lock check of vault.delete
OAuthBroker_revoke(t, handle) ==
    /\ vault_call(t, "revoke", handle)
    /\ delete_begin(t, handle.id)
    /\ UNCHANGED <<providers, uuids>>

\* OAuthBroker::revoke, the rest: vault.delete's backend call, whose error `?`
\* returns, then Ok(())
OAuthBroker_revoke_body(t) ==
    /\ broker_pc[t].op = "revoke"
    /\ delete_body(t)
    /\ broker_ret' = BrokerRet("revoke", broker_pc[t].handle, vault_ret'.kind, None)
    /\ broker_pc' = [broker_pc EXCEPT ![t] = BrokerIdle]
    /\ UNCHANGED <<providers, uuids>>

\* OAuthBroker::get_token up to the lock check of vault.fetch
get_token(t, handle) ==
    /\ vault_call(t, "get_token", handle)
    /\ fetch_begin(t, handle.id)
    /\ UNCHANGED <<providers, uuids>>

\* OAuthBroker::get_token, the rest: what vault.fetch returns
get_token_body(t) ==
    /\ broker_pc[t].op = "get_token"
    /\ fetch_body(t)
    /\ broker_ret' = BrokerRet("get_token", broker_pc[t].handle, vault_ret'.kind, vault_ret'.val)
    /\ broker_pc' = [broker_pc EXCEPT ![t] = BrokerIdle]
    /\ UNCHANGED <<providers, uuids>>

\* the broker called by NumTasks tasks, while the owner of the vault locks and
\* unlocks it
BrokerNext ==
    \/ \E n \in ProviderNames, c \in ProviderConfigs : register_provider(n, c)
    \/ \E t \in Tasks, p \in ProviderNames, sc \in ScopeLists : request_token_device_code(t, p, sc)
    \/ \E t \in Tasks : device_authorization(t)
    \/ \E t \in Tasks : request_token_device_code_body(t)
    \/ \E t \in Tasks, p \in ProviderNames, sc \in ScopeLists : request_token_pkce(t, p, sc)
    \/ \E t \in Tasks : request_token_pkce_body(t)
    \/ \E h \in Handles : refresh(h)
    \/ \E t \in Tasks, h \in Handles : OAuthBroker_revoke(t, h)
    \/ \E t \in Tasks : OAuthBroker_revoke_body(t)
    \/ \E t \in Tasks, h \in Handles : get_token(t, h)
    \/ \E t \in Tasks : get_token_body(t)
    \/ \E t \in Tasks : lock(t) /\ Direct
    \/ \E t \in Tasks : unlock(t) /\ Direct

\* the providers and the arguments of the requests of callers who use two
\* providers: the scopes asked of the second are not those of its configuration
HandleProviders == {"test", "github"}

RequestArguments == { <<"test", <<"read">>>>, <<"github", <<"read", "write">>>> }

\* the labels under which the owner of the vault stores and deletes: the ids of
\* the handles in use
HandleLabels == {l \in Labels : vault_hist[l].handle # None}

\* the handles these callers pass to get_token, revoke and refresh: the
\* handles the requests have returned to them and, for the other ids, handles
\* that are revoked or of their own making
CallerHandles ==
    UNION {vault_hist[l].handle : l \in Labels}
        \cup {TokenHandle(id, "test", <<"read">>) : id \in Labels \ HandleLabels}

\* the configuration these callers register for both providers
DeviceConfig ==
    [ client_id |-> "test-client", auth_url |-> "https://example.com/auth",
      token_url |-> "https://example.com/token",
      device_auth_url |-> Some("https://example.com/device"), scopes |-> <<"read">> ]

\* a TokenVault call that the owner of the vault makes: the owner is the first
\* task, which calls the broker as well
Owner(t) == t = 1 /\ DirectBy(t)

\* the broker called by NumTasks tasks that use two providers, while the owner
\* of the vault locks and unlocks it, stores a secret of its own over that of
\* a handle and deletes the entry of one
HandleNext ==
    \/ \E n \in HandleProviders : register_provider(n, DeviceConfig)
    \/ \E t \in Tasks, r \in RequestArguments : request_token_device_code(t, r[1], r[2])
    \/ \E t \in Tasks : device_authorization(t)
    \/ \E t \in Tasks : request_token_device_code_body(t)
    \/ \E t \in Tasks, r \in RequestArguments : request_token_pkce(t, r[1], r[2])
    \/ \E t \in Tasks : request_token_pkce_body(t)
    \/ \E h \in CallerHandles : refresh(h)
    \/ \E t \in Tasks, h \in CallerHandles : OAuthBroker_revoke(t, h)
    \/ \E t \in Tasks : OAuthBroker_revoke_body(t)
    \/ \E t \in Tasks, h \in CallerHandles : get_token(t, h)
    \/ \E t \in Tasks : get_token_body(t)
    \/ \E t \in Tasks : lock(t) /\ Direct
    \/ \E t \in Tasks : unlock(t) /\ Direct
    \/ \E t \in Tasks, l \in HandleLabels :
            ~vault_hist[l].replaced /\ store_begin(t, l, "value") /\ Owner(t)
    \/ \E t \in Tasks : store_body(t) /\ Owner(t)
    \/ \E t \in Tasks, l \in HandleLabels : delete_begin(t, l) /\ Owner(t)
    \/ \E t \in Tasks : delete_body(t) /\ Owner(t)

\* -------------------------------------------------------- oauth/consent.rs

\* agent ids, capability strings, durations and reasons the callers pass
Agents == {"agent1", "agent2"}

LedgerCapabilities == { <<"files", ".", "read">> }

LedgerDurations == {Some(3600)}

Reasons == {"User denied"}

\* ConsentAction::Grant { capability, duration_s }
ConsentAction_Grant(capability, duration_s) ==
    [kind |-> "Grant", capability |-> capability, duration_s |-> duration_s, reason |-> None]

\* ConsentAction::Revoke { capability }
ConsentAction_Revoke(capability) ==
    [kind |-> "Revoke", capability |-> capability, duration_s |-> None, reason |-> None]

\* ConsentAction::Deny { capability, reason }
ConsentAction_Deny(capability, reason) ==
    [kind |-> "Deny", capability |-> capability, duration_s |-> None, reason |-> Some(reason)]

\* ConsentEntry { timestamp: SystemTime::now(), agent_id, action, user_id: None }
ConsentEntry(timestamp, agent_id, action) ==
    [timestamp |-> timestamp, agent_id |-> agent_id, action |-> action, user_id |-> None]

\* Vec::push
Vec_push(v, e) == Append(v, e)

\* entries.iter().filter(|e| e.agent_id == agent_id).cloned().collect()
filter_agent(es, agent_id) == SelectSeq(es, LAMBDA e : e.agent_id = agent_id)

\* serde_json::to_string_pretty(&*entries): a JSON array with one object per
\* entry, in list order, each with the four fields of the entry
export_json(es) ==
    [i \in DOMAIN es |->
        [ timestamp |-> es[i].timestamp, agent_id |-> es[i].agent_id,
          action |-> es[i].action, user_id |-> es[i].user_id ]]

\* Result values of the ledger's calls, all Ok: the call, the agent it asked
\* for, the value
LedgerRet(op, agent_id, val) ==
    [op |-> op, agent_id |-> agent_id, kind |-> "Ok", val |-> val]

\* log_* calls made so far: entries pushed and entries built but not yet pushed
log_calls == Len(entries) + Cardinality({t \in Tasks : ledger_pc[t] # None})

\* a ConsentLedger call leaves the CapabilityManager and the vault alone
LedgerFrame ==
    UNCHANGED <<grants, issued, cap_ret, cap_hist, grant_pc, active_pc, vaultVars, runtimeVars, brokerVars,
                agentVars>>

\* ConsentLedger::new
LedgerInit ==
    /\ entries = <<>>
    /\ ledger_pc = [t \in Tasks |-> None]
    /\ ledger_ret = LedgerRet("new", None, <<>>)

\* the first statement of log_grant, log_revoke and log_deny: the entry is
\* built, with the time read, before `self.entries.write().await`
log_build(t, op, agent_id, action) ==
    /\ ledger_pc[t] = None
    /\ log_calls < MaxEntries
    /\ ledger_pc' = [ledger_pc EXCEPT ![t] =
            Some([op |-> op, entry |-> ConsentEntry(now, agent_id, action)])]
    /\ UNCHANGED <<now, entries, ledger_ret>>
    /\ LedgerFrame

\* ConsentLedger::log_grant, up to the write lock
log_grant(t, agent_id, capability, duration_s) ==
    log_build(t, "log_grant", agent_id, ConsentAction_Grant(capability, duration_s))

\* ConsentLedger::log_revoke, up to the write lock
log_revoke(t, agent_id, capability) ==
    log_build(t, "log_revoke", agent_id, ConsentAction_Revoke(capability))

\* ConsentLedger::log_deny, up to the write lock
log_deny(t, agent_id, capability, reason) ==
    log_build(t, "log_deny", agent_id, ConsentAction_Deny(capability, reason))

\* faulty variant of entries_push: a Revoke entry takes the place of the
\* agent's earlier entries for the capability
entries_push_revoke_replaces(t) ==
    /\ \E p \in ledger_pc[t] :
        /\ entries' =
              IF p.entry.action.kind = "Revoke"
              THEN Vec_push(SelectSeq(entries, LAMBDA e :
                        ~(e.agent_id = p.entry.agent_id
                          /\ e.action.capability = p.entry.action.capability)), p.entry)
              ELSE Vec_push(entries, p.entry)
        /\ ledger_ret' = LedgerRet(p.op, Some(p.entry.agent_id), <<>>)
    /\ ledger_pc' = [ledger_pc EXCEPT ![t] = None]
    /\ UNCHANGED now
    /\ LedgerFrame

\* the rest of log_grant, log_revoke and log_deny: under the write lock,
\* `entries.push(entry)`, then Ok(())
entries_push(t) ==
    /\ \E p \in ledger_pc[t] :
        /\ entries' = Vec_push(entries, p.entry)
        /\ ledger_ret' = LedgerRet(p.op, Some(p.entry.agent_id), <<>>)
    /\ ledger_pc' = [ledger_pc EXCEPT ![t] = None]
    /\ UNCHANGED now
    /\ LedgerFrame

\* ConsentLedger::get_all
get_all ==
    /\ ledger_ret' = LedgerRet("get_all", None, entries)
    /\ UNCHANGED <<now, entries, ledger_pc>>
    /\ LedgerFrame

\* faulty variant of get_for_agent: the filter is left out
get_for_agent_unfiltered(agent_id) ==
    /\ ledger_ret' = LedgerRet("get_for_agent", Some(agent_id), entries)
    /\ UNCHANGED <<now, entries, ledger_pc>>
    /\ LedgerFrame

\* ConsentLedger::get_for_agent
get_for_agent(agent_id) ==
    /\ ledger_ret' = LedgerRet("get_for_agent", Some(agent_id), filter_agent(entries, agent_id))
    /\ UNCHANGED <<now, entries, ledger_pc>>
    /\ LedgerFrame

\* ConsentLedger::export
export ==
    /\ ledger_ret' = LedgerRet("export", None, export_json(entries))
    /\ UNCHANGED <<now, entries, ledger_pc>>
    /\ LedgerFrame

LedgerNext ==
    \/ \E t \in Tasks, a \in Agents, c \in LedgerCapabilities, d \in LedgerDurations :
            log_grant(t, a, c, d)
    \/ \E t \in Tasks, a \in Agents, c \in LedgerCapabilities : log_revoke(t, a, c)
    \/ \E t \in Tasks, a \in Agents, c \in LedgerCapabilities, r \in Reasons :
            log_deny(t, a, c, r)
    \/ \E t \in Tasks : entries_push(t)
    \/ get_all
    \/ \E a \in Agents : get_for_agent(a)
    \/ export
    \/ Tick

\* ------------------------------------------------------- agents/runtime.rs

\* capability strings of manifests; "network" is the one of test_manifest_parsing
\* that has no "."
FilesRead == <<"files", ".", "read">>

FilesWrite == <<"files", ".", "write">>

Network == <<"network">>

\* a capability string with a ':' and no '.': one segment
NetHttp == <<"net:http">>

\* Manifest.capabilities
ManifestCapabilities ==
    { <<>>, <<FilesRead>>, <<FilesRead, FilesWrite>>, <<FilesRead, Network>>,
      <<FilesRead, NetHttp>> }

\* SandboxMode
SandboxModes == {"Wasm", "Native"}

\* the fields of Manifest that execute reads
RuntimeManifest(sandbox, capabilities) ==
    [name |-> "Test Agent", sandbox |-> sandbox, capabilities |-> capabilities]

\* the manifests execute is called with: two capabilities that parse, under
\* either sandbox, a capability that does not parse after one that does, and
\* no capability at all
Manifests ==
    { RuntimeManifest(sandbox, <<FilesRead, FilesWrite>>) : sandbox \in SandboxModes }
        \cup { RuntimeManifest("Wasm", <<FilesRead, Network>>),
               RuntimeManifest("Native", <<FilesRead, NetHttp>>),
               RuntimeManifest("Wasm", <<>>) }

Inputs == {"test input", ""}

\* str::split('.'): the parts between the "." segments, "" where two
\* separators, or a separator and an end of the string, meet
RECURSIVE str_split(_)
str_split(str) ==
    IF str = <<>> THEN <<"">>
    ELSE LET rest == str_split(Tail(str))
         IN  IF Head(str) = "." THEN <<"">> \o rest
             ELSE <<Head(str)>> \o Tail(rest)

\* Capability::to_string: format!("{}.{}", self.scope, self.action)
Capability_to_string(capability) == <<capability.scope, ".", capability.action>>

\* Capability::parse: Some(capability), or None for the "Invalid capability
\* format" error
Capability_parse(str) ==
    LET parts == str_split(str)
    IN  IF Len(parts) # 2 THEN None
        ELSE Some(Capability_new(parts[1], parts[2]))

\* faulty variant of requires_native: the test is the wrong way round
requires_native_inverted(manifest) == manifest.sandbox = "Wasm"

\* Manifest::requires_native
requires_native(manifest) == manifest.sandbox = "Native"

\* Event::new: the time is read when the event is built
Event_new(event_type, agent_id, sequence) ==
    [event_type |-> event_type, agent_id |-> agent_id, timestamp |-> now, sequence |-> sequence]

\* Event::input
Event_input(agent_id, prompt, sequence) ==
    Event_new([type |-> "Input", prompt |-> prompt, context_refs |-> <<>>], agent_id, sequence)

\* AgentRuntime::execute_wasm
execute_wasm(manifest, input) == <<Event_input("wasm-agent", input, 0)>>

\* AgentRuntime::execute_native
execute_native(manifest, input) == <<Event_input("native-agent", input, 0)>>

\* an execute call that is not in flight: not made yet, or returned
NoExec == [at |-> "idle", manifest |-> None, input |-> None, i |-> 0, seen |-> <<>>]

\* Result<Vec<Event>> of the latest execute call, with what the call did: the backend it
\* dispatched to, what its checks returned, and the capabilities it had seen
\* granted that a revoke() had since taken away when it dispatched
ExecRet(kind, events, dispatched, seen, revoked) ==
    [ kind |-> kind, events |-> events, dispatched |-> dispatched,
      seen |-> seen, revoked |-> revoked ]

\* the capabilities whose check in this call returned true and that a revoke
\* has taken away since: a revoke of the capability has returned true and no
\* grant of it has been pushed after that
revoked_since(seen) ==
    { c \in Caps :
        /\ \E k \in DOMAIN seen : seen[k].capability = c /\ seen[k].ok
        /\ cap_hist[c].revoked_ok
        /\ ~check_any(grants, now, c) }

\* the agent_id values of the events the runtime builds
EventAgents == {"wasm-agent", "native-agent"}

\* the greatest sequence per agent_id once the events of a call are returned
record_events(hist, events) ==
    [a \in EventAgents |->
        LET seqs == {events[k].sequence : k \in {j \in DOMAIN events : events[j].agent_id = a}}
                    \cup hist[a]
        IN  IF seqs = {} THEN None
            ELSE Some(CHOOSE m \in seqs : \A n \in seqs : n <= m)]

\* an execute call leaves the vault and the ledger alone
RuntimeFrame == UNCHANGED <<vaultVars, ledgerVars, brokerVars, agentVars>>

\* WasmHost::new: Ok(WasmHost) in a build with feature "wasm", the bail!
\* "WASM support not compiled in" in a build without it
WasmHost_new(wasm) == IF wasm THEN "Ok" ELSE "Err"

\* the execute calls of one behaviour, in the order in which they are made
ExecuteCalls == 1..MaxCalls

\* no AgentRuntime is built: the components stand alone
NoRuntime ==
    /\ runtime = None
    /\ exec_pc = [call \in ExecuteCalls |-> NoExec]
    /\ exec_ret = ExecRet("new", <<>>, None, <<>>, {})
    /\ exec_hist = [a \in EventAgents |-> None]
    /\ executes = 0

\* AgentRuntime::new: `WasmHost::new()?` returns the error of a build without
\* feature "wasm", and then there is no runtime to call
RuntimeInit ==
    /\ \E wasm \in BOOLEAN : runtime = Some(WasmHost_new(wasm))
    /\ exec_pc = [call \in ExecuteCalls |-> NoExec]
    /\ exec_ret = ExecRet("new", <<>>, None, <<>>, {})
    /\ exec_hist = [a \in EventAgents |-> None]
    /\ executes = 0

\* the runtime AgentRuntime::new has returned, whose capability_manager()
\* the tasks grant and revoke on
AgentRuntime == runtime = Some("Ok")

\* AgentRuntime::execute is called, whatever calls of it are in flight
\* (&self); the call has returned nothing yet.  MaxCalls bounds the calls of
\* one behaviour.
execute(manifest, input) ==
    /\ AgentRuntime
    /\ executes < MaxCalls
    /\ executes' = executes + 1
    /\ exec_pc' = [exec_pc EXCEPT ![executes + 1] =
                      [at |-> "loop", manifest |-> Some(manifest), input |-> Some(input),
                       i |-> 1, seen |-> <<>>]]
    /\ exec_ret' = ExecRet("pending", <<>>, None, <<>>, {})
    /\ UNCHANGED <<capVars, exec_hist, runtime>>
    /\ RuntimeFrame

\* faulty variant of execute_check: a capability string that does not parse
\* is passed over, as Manifest::validate passes it over
execute_check_skips_unparsed(call) ==
    /\ exec_pc[call].at = "loop"
    /\ \E manifest \in exec_pc[call].manifest :
        /\ exec_pc[call].i <= Len(manifest.capabilities)
        /\ LET cap == Capability_parse(manifest.capabilities[exec_pc[call].i])
           IN  IF cap = None
               THEN /\ exec_pc' = [exec_pc EXCEPT ![call].i = @ + 1]
                    /\ UNCHANGED <<cap_ret, exec_ret>>
               ELSE \E c \in cap :
                    LET ok == check_any(grants, now, c)
                    IN  /\ exec_pc' = [exec_pc EXCEPT
                                ![call].i = @ + 1,
                                ![call].seen = Append(@, [capability |-> c, ok |-> ok])]
                        /\ cap_ret' = CapRet("check", Some(c), ok, <<>>)
                        /\ UNCHANGED exec_ret
    /\ UNCHANGED <<now, grants, issued, cap_hist, grant_pc, active_pc, exec_hist, runtime, executes>>
    /\ RuntimeFrame

\* one turn of `for cap_str in &manifest.capabilities`: parse, which may
\* return the error from execute, then check().await, whose false only logs
execute_check(call) ==
    /\ exec_pc[call].at = "loop"
    /\ \E manifest \in exec_pc[call].manifest :
        /\ exec_pc[call].i <= Len(manifest.capabilities)
        /\ LET cap == Capability_parse(manifest.capabilities[exec_pc[call].i])
           IN  IF cap = None
               THEN /\ exec_ret' = ExecRet("Err", <<>>, None, exec_pc[call].seen, {})
                    /\ exec_pc' = [exec_pc EXCEPT ![call] = NoExec]
                    /\ UNCHANGED cap_ret
               ELSE \E c \in cap :
                    LET ok == check_any(grants, now, c)
                    IN  /\ exec_pc' = [exec_pc EXCEPT
                                ![call].i = @ + 1,
                                ![call].seen = Append(@, [capability |-> c, ok |-> ok])]
                        /\ cap_ret' = CapRet("check", Some(c), ok, <<>>)
                        /\ UNCHANGED exec_ret
    /\ UNCHANGED <<now, grants, issued, cap_hist, grant_pc, active_pc, exec_hist, runtime, executes>>
    /\ RuntimeFrame

\* faulty variant of execute_dispatch: the capabilities are checked again and
\* the call fails when one that was granted no longer is
execute_dispatch_rechecks(call) ==
    /\ exec_pc[call].at = "loop"
    /\ \E manifest \in exec_pc[call].manifest, input \in exec_pc[call].input :
        /\ exec_pc[call].i > Len(manifest.capabilities)
        /\ exec_ret' =
              IF \E k \in DOMAIN exec_pc[call].seen :
                    exec_pc[call].seen[k].ok /\ ~check_any(grants, now, exec_pc[call].seen[k].capability)
              THEN ExecRet("Err", <<>>, None, exec_pc[call].seen, revoked_since(exec_pc[call].seen))
              ELSE IF requires_native(manifest)
              THEN ExecRet("Ok", execute_native(manifest, input), Some("native"),
                           exec_pc[call].seen, revoked_since(exec_pc[call].seen))
              ELSE ExecRet("Ok", execute_wasm(manifest, input), Some("wasm"),
                           exec_pc[call].seen, revoked_since(exec_pc[call].seen))
    /\ exec_pc' = [exec_pc EXCEPT ![call] = NoExec]
    /\ exec_hist' = record_events(exec_hist, exec_ret'.events)
    /\ UNCHANGED <<capVars, runtime, executes>>
    /\ RuntimeFrame

\* faulty variant of execute_dispatch: the loop is left after its first turn
execute_dispatch_early(call) ==
    /\ exec_pc[call].at = "loop"
    /\ \E manifest \in exec_pc[call].manifest, input \in exec_pc[call].input :
        /\ exec_pc[call].i > Len(manifest.capabilities) \/ exec_pc[call].i > 1
        /\ exec_ret' =
              IF requires_native(manifest)
              THEN ExecRet("Ok", execute_native(manifest, input), Some("native"),
                           exec_pc[call].seen, revoked_since(exec_pc[call].seen))
              ELSE ExecRet("Ok", execute_wasm(manifest, input), Some("wasm"),
                           exec_pc[call].seen, revoked_since(exec_pc[call].seen))
    /\ exec_pc' = [exec_pc EXCEPT ![call] = NoExec]
    /\ exec_hist' = record_events(exec_hist, exec_ret'.events)
    /\ UNCHANGED <<capVars, runtime, executes>>
    /\ RuntimeFrame

\* the loop is over: `if manifest.requires_native() { execute_native } else
\* { execute_wasm }`, whose events execute returns
execute_dispatch(call) ==
    /\ exec_pc[call].at = "loop"
    /\ \E manifest \in exec_pc[call].manifest, input \in exec_pc[call].input :
        /\ exec_pc[call].i > Len(manifest.capabilities)
        /\ exec_ret' =
              IF requires_native(manifest)
              THEN ExecRet("Ok", execute_native(manifest, input), Some("native"),
                           exec_pc[call].seen, revoked_since(exec_pc[call].seen))
              ELSE ExecRet("Ok", execute_wasm(manifest, input), Some("wasm"),
                           exec_pc[call].seen, revoked_since(exec_pc[call].seen))
    /\ exec_pc' = [exec_pc EXCEPT ![call] = NoExec]
    /\ exec_hist' = record_events(exec_hist, exec_ret'.events)
    /\ UNCHANGED <<capVars, runtime, executes>>
    /\ RuntimeFrame

\* the execute calls of some tasks, while other tasks grant without expiry
\* and revoke on the runtime's capability_manager()
RuntimeNext ==
    \/ \E m \in Manifests, input \in Inputs : execute(m, input)
    \/ \E call \in ExecuteCalls : execute_check(call)
    \/ \E call \in ExecuteCalls : execute_dispatch(call)
    \/ \E c \in Caps : AgentRuntime /\ grant(c, None)
    \/ \E pc \in grant_pc : grants_push(pc)
    \/ \E c \in Caps : AgentRuntime /\ revoke(c)

\* ------------------------------------- agents/capabilities.rs: Capability::parse

\* the segments of the strings passed to Capability::parse
Segments == {"files", "read", "network", "."}

\* a run of characters other than "." is one segment: no two of them are adjacent
RECURSIVE NormalForm(_)
NormalForm(str) ==
    \/ Len(str) <= 1
    \/ /\ Head(str) = "." \/ Head(Tail(str)) = "."
       /\ NormalForm(Tail(str))

\* the strings of at most MaxSegments segments, "" among them
Strings ==
    UNION { {str \in [1..n -> Segments] : NormalForm(str)} : n \in 0..MaxSegments }

\* Result<Capability>: Some(capability) or None, with the argument
ParseRet(op, str, val) == [op |-> op, str |-> str, val |-> val]

ParseFrame ==
    UNCHANGED <<capVars, vaultVars, ledgerVars, runtimeVars, brokerVars, manifestVars,
                registryVars, lockVars>>

\* before any call of Capability::parse
ParseInit == parse_ret = ParseRet("new", <<>>, None)

\* Capability::parse as a call
parse(str) ==
    /\ parse_ret' = ParseRet("parse", str, Capability_parse(str))
    /\ ParseFrame

ParseNext == \E str \in Strings : parse(str)

\* ------------------------------------------------------ agents/manifest.rs

SchemaVersions == {"0.1", "0.2"}

AgentNames == {"Test Agent", "Test"}

EntryPoints == {"", "agent.wasm"}

\* the characters of a segment that contains() is asked about
SegmentChars(segment) ==
    IF segment = "." THEN {"."} ELSE IF segment = "net:http" THEN {":"} ELSE {}

\* str::contains(char)
str_contains(str, ch) == \E i \in DOMAIN str : ch \in SegmentChars(str[i])

\* Manifest.capabilities as written in manifest files
CapabilityLists == ManifestCapabilities \cup { <<NetHttp>> }

\* Manifest: the fields load, validate and the registry read
Manifest(schema_version, name, entry, sandbox, capabilities) ==
    [schema_version |-> schema_version, name |-> name, entry |-> entry,
     sandbox |-> sandbox, capabilities |-> capabilities]

ManifestValues ==
    [schema_version : SchemaVersions, name : AgentNames, entry : EntryPoints,
     sandbox : SandboxModes, capabilities : CapabilityLists]

\* the TOML tables of manifest files: name may be missing, sandbox is any string
TomlTables ==
    [toml : {"table"}, schema_version : SchemaVersions, name : {None} \cup {Some(n) : n \in AgentNames},
     entry : EntryPoints, sandbox : {"wasm", "native", "docker"},
     capabilities : CapabilityLists]

\* what a manifest.toml holds: bytes that cannot be read as a string, text that
\* is not TOML, or a TOML table
Unreadable == [toml |-> "unreadable"]

Malformed == [toml |-> "malformed"]

Contents == {Unreadable, Malformed} \cup TomlTables

\* a path that is a regular file, and a directory with or without manifest.toml
RegularFile == [is_dir |-> FALSE, manifest |-> None]

Directory(manifest) == [is_dir |-> TRUE, manifest |-> manifest]

\* the agent directories
Dirs == {"agents/one", "agents/two", "agents/three"}

\* Result values: Ok(val) or an error of some kind
Result(kind, val) == [kind |-> kind, val |-> val]

\* fs::read_to_string(dir.join("manifest.toml"))
read_to_string(dir) ==
    IF fs[dir].manifest = None \/ fs[dir].manifest = Some(Unreadable)
    THEN Result("Read", None)
    ELSE Result("Ok", fs[dir].manifest)

\* #[serde(rename_all = "lowercase")] SandboxMode
SandboxMode_deserialize(str) ==
    IF str = "wasm" THEN Some("Wasm") ELSE IF str = "native" THEN Some("Native") ELSE None

\* toml::from_str::<Manifest>: an error for text that is not TOML, a missing
\* name, or a sandbox that is no variant
toml_from_str(contents) ==
    IF contents = Malformed THEN Result("Parse", None)
    ELSE IF contents.name = None \/ SandboxMode_deserialize(contents.sandbox) = None
    THEN Result("Parse", None)
    ELSE Result("Ok", { Manifest(contents.schema_version, n, contents.entry, sb,
                                 contents.capabilities) :
                            n \in contents.name,
                            sb \in SandboxMode_deserialize(contents.sandbox) })

\* the capabilities validate warns about
validate_warnings(manifest) ==
    { i \in DOMAIN manifest.capabilities :
        /\ ~str_contains(manifest.capabilities[i], ".")
        /\ ~str_contains(manifest.capabilities[i], ":") }

\* faulty variant of Manifest_validate: a capability it warns about is an error
Manifest_validate_strict(manifest) ==
    IF manifest.schema_version # "0.1" THEN Result("SchemaVersion", None)
    ELSE IF manifest.entry = "" THEN Result("EmptyEntry", None)
    ELSE IF validate_warnings(manifest) # {} THEN Result("Capability", None)
    ELSE Result("Ok", None)

\* Manifest::validate
Manifest_validate(manifest) ==
    IF manifest.schema_version # "0.1" THEN Result("SchemaVersion", None)
    ELSE IF manifest.entry = "" THEN Result("EmptyEntry", None)
    ELSE Result("Ok", None)

\* Option::unwrap and the value `?` leaves of an Ok
unwrap(option) == CHOOSE x \in option : TRUE

\* Manifest::load of dir.join("manifest.toml")
Manifest_load(dir) ==
    LET contents == read_to_string(dir)
    IN  IF contents.kind # "Ok" THEN contents
        ELSE LET parsed == toml_from_str(unwrap(contents.val))
             IN  IF parsed.kind # "Ok" THEN parsed
                 ELSE LET validated == Manifest_validate(unwrap(parsed.val))
                      IN  IF validated.kind # "Ok" THEN validated
                          ELSE Result("Ok", parsed.val)

\* the value a Manifest call returned, with its argument
ManifestRet(op, arg, kind, val, warned) ==
    [op |-> op, arg |-> arg, kind |-> kind, val |-> val, warned |-> warned]

ManifestFrame ==
    UNCHANGED <<capVars, vaultVars, ledgerVars, runtimeVars, brokerVars, parseVars,
                registryVars, lockVars>>

\* before any call of Manifest
ManifestInit == manifest_ret = ManifestRet("new", None, "Ok", None, {})

\* a file system whose agent directories hold no manifest
NoManifests == fs = [dir \in Dirs |-> Directory(None)]

\* the capabilities a call of validate logs a warning for: none when it bails
\* on the schema version or the entry, which it tests before its loop
validate_warned(manifest) ==
    IF Manifest_validate(manifest).kind = "Ok" THEN validate_warnings(manifest) ELSE {}

\* the capabilities a call of load logs a warning for: those of the validate
\* it runs on the manifest it has parsed
load_warned(dir) ==
    LET contents == read_to_string(dir)
    IN  IF contents.kind # "Ok" THEN {}
        ELSE LET parsed == toml_from_str(unwrap(contents.val))
             IN  IF parsed.kind # "Ok" THEN {}
                 ELSE validate_warned(unwrap(parsed.val))

\* Manifest::validate as a call
validate(manifest) ==
    /\ manifest_ret' = ManifestRet("validate", Some(manifest), Manifest_validate(manifest).kind,
                                   None, validate_warned(manifest))
    /\ UNCHANGED fs
    /\ ManifestFrame

\* Manifest::load as a call
load(dir) ==
    /\ manifest_ret' = ManifestRet("load", Some(dir), Manifest_load(dir).kind,
                                   Manifest_load(dir).val, load_warned(dir))
    /\ UNCHANGED fs
    /\ ManifestFrame

ManifestNext ==
    \/ \E manifest \in ManifestValues : validate(manifest)
    \/ \E dir \in Dirs : load(dir)

\* ------------------------------------------------------ agents/registry.rs

\* AgentInfo { manifest, base_dir, enabled }
AgentInfo(manifest, base_dir, enabled) ==
    [manifest |-> manifest, base_dir |-> base_dir, enabled |-> enabled]

\* the paths discover is pointed at: the directory that holds Dirs, a path
\* that does not exist, and one of Dirs, a regular file or a directory that
\* holds at most a manifest.toml
AgentsDirs == {"agents", "missing", "agents/one"}

\* dir.join("manifest.toml")
manifest_path(dir) == dir \o "/manifest.toml"

\* Path::is_dir
is_dir(path) == path = "agents" \/ (path \in Dirs /\ fs[path].is_dir)

\* Path::exists: "agents" and what it holds exist, and so does the
\* manifest.toml of an agent directory that has one
exists(path) ==
    \/ path = "agents"
    \/ path \in Dirs
    \/ \E dir \in Dirs :
          path = manifest_path(dir) /\ fs[dir].is_dir /\ fs[dir].manifest # None

\* std::fs::read_dir: an error for a path that is no directory, else the
\* entries of the directory
read_dir(agents_dir) ==
    IF ~is_dir(agents_dir) THEN Result("ReadDir", {})
    ELSE IF agents_dir = "agents" THEN Result("Ok", Dirs)
    ELSE Result("Ok", {path \in {manifest_path(agents_dir)} : exists(path)})

\* what next() of the iterator of read_dir returns: an entry or the end of
\* the directory, or an I/O error
DirEntryResults == {"Ok", "Io"}

\* the sequences that hold every element of a set once: the orders in which
\* fs::read_dir may yield the entries
Orders(set) ==
    { order \in [1..Cardinality(set) -> set] :
        \A i, j \in DOMAIN order : i # j => order[i] # order[j] }

\* Result values with the call's argument; for register, val is what the
\* insert into the map replaced
RegistryRet(op, arg, kind, val) == [op |-> op, arg |-> arg, kind |-> kind, val |-> val]

RegistryFrame ==
    UNCHANGED <<capVars, vaultVars, ledgerVars, runtimeVars, brokerVars, parseVars,
                manifestVars, lockVars>>

\* AgentRegistry::new
RegistryInit ==
    /\ agents = HashMap_new
    /\ registry_ret = RegistryRet("new", None, "Ok", None)
    /\ discover_pc = [t \in Tasks |-> None]

\* what AgentRegistry::register returns for a directory: the error of a
\* missing manifest.toml or of Manifest::load, or Ok with the manifest loaded
register_load(agent_dir) ==
    IF ~exists(manifest_path(agent_dir)) THEN Result("NoManifest", None)
    ELSE Manifest_load(agent_dir)

\* what AgentRegistry::register leaves in the map
register_insert(agent_dir) ==
    LET loaded == register_load(agent_dir)
    IN  IF loaded.kind # "Ok" THEN agents
        ELSE HashMap_insert(agents, unwrap(loaded.val).name,
                            AgentInfo(unwrap(loaded.val), agent_dir, TRUE))

\* what agents.insert returns inside AgentRegistry::register, and register
\* drops: the entry the name had before
register_replaced(agent_dir) ==
    LET loaded == register_load(agent_dir)
    IN  IF loaded.kind # "Ok" THEN None
        ELSE HashMap_get(agents, unwrap(loaded.val).name)

\* faulty variant of register: an entry of the name keeps its enabled flag
register_keeps_enabled(agent_dir) ==
    /\ agents' =
        LET loaded == register_load(agent_dir)
        IN  IF loaded.kind # "Ok" THEN agents
            ELSE LET name == unwrap(loaded.val).name
                 IN  HashMap_insert(agents, name,
                        AgentInfo(unwrap(loaded.val), agent_dir,
                                  IF name \in DOMAIN agents THEN agents[name].enabled ELSE TRUE))
    /\ registry_ret' = RegistryRet("register", Some(agent_dir), register_load(agent_dir).kind,
                                   register_replaced(agent_dir))
    /\ UNCHANGED <<fs, manifest_ret, discover_pc>>
    /\ RegistryFrame

\* faulty variant of register: the entry of a manifest that fails validation
\* is inserted before the error is returned
register_before_validate(agent_dir) ==
    /\ agents' =
        LET contents == read_to_string(agent_dir)
            parsed == IF contents.kind = "Ok" THEN toml_from_str(unwrap(contents.val))
                      ELSE contents
        IN  IF parsed.kind # "Ok" THEN agents
            ELSE HashMap_insert(agents, unwrap(parsed.val).name,
                                AgentInfo(unwrap(parsed.val), agent_dir, TRUE))
    /\ registry_ret' = RegistryRet("register", Some(agent_dir), register_load(agent_dir).kind,
                                   register_replaced(agent_dir))
    /\ UNCHANGED <<fs, manifest_ret, discover_pc>>
    /\ RegistryFrame

\* AgentRegistry::register
register(agent_dir) ==
    /\ agents' = register_insert(agent_dir)
    /\ registry_ret' = RegistryRet("register", Some(agent_dir), register_load(agent_dir).kind,
                                   register_replaced(agent_dir))
    /\ UNCHANGED <<fs, manifest_ret, discover_pc>>
    /\ RegistryFrame

\* AgentRegistry::get
get(name) ==
    /\ registry_ret' = RegistryRet("get", Some(name), "Ok", HashMap_get(agents, name))
    /\ UNCHANGED <<fs, manifest_ret, agents, discover_pc>>
    /\ RegistryFrame

\* AgentRegistry::list: the values of the map, in no order
list ==
    /\ registry_ret' = RegistryRet("list", None, "Ok", {agents[n] : n \in DOMAIN agents})
    /\ UNCHANGED <<fs, manifest_ret, agents, discover_pc>>
    /\ RegistryFrame

\* AgentRegistry::set_enabled
set_enabled(name, enabled) ==
    /\ IF name \in DOMAIN agents
       THEN /\ agents' = [agents EXCEPT ![name].enabled = enabled]
            /\ registry_ret' = RegistryRet("set_enabled", Some(<<name, enabled>>), "Ok", None)
       ELSE /\ registry_ret' = RegistryRet("set_enabled", Some(<<name, enabled>>), "NotFound", None)
            /\ UNCHANGED agents
    /\ UNCHANGED <<fs, manifest_ret, discover_pc>>
    /\ RegistryFrame

\* faulty variant of get_by_sandbox: the enabled flag is not looked at
get_by_sandbox_any(mode) ==
    /\ registry_ret' = RegistryRet("get_by_sandbox", Some(mode), "Ok",
            { agents[n] : n \in {k \in DOMAIN agents : agents[k].manifest.sandbox = mode} })
    /\ UNCHANGED <<fs, manifest_ret, agents, discover_pc>>
    /\ RegistryFrame

\* AgentRegistry::get_by_sandbox
get_by_sandbox(mode) ==
    /\ registry_ret' = RegistryRet("get_by_sandbox", Some(mode), "Ok",
            { agents[n] : n \in {k \in DOMAIN agents :
                                    agents[k].manifest.sandbox = mode /\ agents[k].enabled} })
    /\ UNCHANGED <<fs, manifest_ret, agents, discover_pc>>
    /\ RegistryFrame

\* AgentRegistry::discover up to its loop: Ok(()) at once for a path that does
\* not exist, the error of read_dir for one that cannot be listed, else the
\* entries of the directory in the order the iterator will yield them
discover(t, agents_dir) ==
    /\ discover_pc[t] = None
    /\ IF ~exists(agents_dir)
       THEN /\ registry_ret' = RegistryRet("discover", Some(agents_dir), "Ok", None)
            /\ UNCHANGED discover_pc
       ELSE IF read_dir(agents_dir).kind # "Ok"
       THEN /\ registry_ret' = RegistryRet("discover", Some(agents_dir),
                                           read_dir(agents_dir).kind, None)
            /\ UNCHANGED discover_pc
       ELSE /\ \E order \in Orders(read_dir(agents_dir).val) :
                    discover_pc' = [discover_pc EXCEPT ![t] =
                                        Some([agents_dir |-> agents_dir, entries |-> order])]
            /\ UNCHANGED registry_ret
    /\ UNCHANGED <<fs, manifest_ret, agents>>
    /\ RegistryFrame

\* AgentRegistry::discover, one turn of its loop, made of the iterator's
\* next() and the body: a read of the directory that fails ends the call with
\* the I/O error (`entry?`); at the end of the directory the call returns
\* Ok(()); an entry that is a directory and has a manifest.toml is registered,
\* once register holds the write lock, and the error of that is only logged;
\* anything else is passed over
discover_entry(t) ==
    \E pc \in discover_pc[t], entry \in DirEntryResults :
        /\ IF entry # "Ok"
           THEN /\ discover_pc' = [discover_pc EXCEPT ![t] = None]
                /\ registry_ret' = RegistryRet("discover", Some(pc.agents_dir), entry, None)
                /\ UNCHANGED agents
           ELSE IF pc.entries = <<>>
           THEN /\ discover_pc' = [discover_pc EXCEPT ![t] = None]
                /\ registry_ret' = RegistryRet("discover", Some(pc.agents_dir), "Ok", None)
                /\ UNCHANGED agents
           ELSE LET path == Head(pc.entries)
                IN  /\ agents' = IF is_dir(path) /\ exists(manifest_path(path))
                                 THEN register_insert(path) ELSE agents
                    /\ discover_pc' = [discover_pc EXCEPT ![t] = Some([pc EXCEPT !.entries = Tail(@)])]
                    /\ UNCHANGED registry_ret
        /\ UNCHANGED <<fs, manifest_ret>>
        /\ RegistryFrame

RegistryNext ==
    \/ \E agent_dir \in Dirs : register(agent_dir)
    \/ \E name \in AgentNames : get(name)
    \/ list
    \/ \E name \in AgentNames, enabled \in BOOLEAN : set_enabled(name, enabled)
    \/ \E mode \in SandboxModes : get_by_sandbox(mode)
    \/ \E t \in Tasks, agents_dir \in AgentsDirs : discover(t, agents_dir)
    \/ \E t \in Tasks : discover_entry(t)

\* ------------------------------------------- the RwLocks of the components

\* CapabilityManager.grants, ConsentLedger.entries, TokenVault.locked,
\* TokenVault.in_memory_store, AgentRegistry.agents, OAuthBroker.providers
RwLocks == {"grants", "entries", "locked", "in_memory_store", "agents", "providers"}

\* `lock.read().await` and `lock.write().await`, the guard kept
Acquire(rw, mode) == <<"acquire", rw, mode>>

\* the guard of a lock goes out of scope
Release(rw) == <<"release", rw>>

\* `let guard = lock.write().await; ...` to the end of the function
write_section(rw) == <<Acquire(rw, "write"), Release(rw)>>

\* `let guard = lock.read().await; ...` to the end of the function
read_section(rw) == <<Acquire(rw, "read"), Release(rw)>>

\* `if *self.locked.read().await { bail!(..) }`: the guard is a temporary of
\* the condition and is dropped before the body of the function goes on
locked_check == <<Acquire("locked", "read"), <<"bail_if_locked">>>>

\* the steps of a call are tuples: what the step does, then what it does it
\* to or with; the guards held on a lock and the tasks queued for one are
\* pairs <<task, mode>>

\* the steps of a CapabilityManager call: grant builds its grant before it
\* asks for the write lock
CapabilityManager_locks(op, capability, duration) ==
    IF op = "grant"
    THEN <<<<"CapabilityGrant_new", capability, duration>>,
           Acquire("grants", "write"), <<"grants_push">>>>
    ELSE IF op = "revoke"
    THEN <<Acquire("grants", "write"), <<"revoke_loop", capability>>>>
    ELSE IF op = "cleanup_expired"
    THEN <<Acquire("grants", "write"), <<"cleanup_retain">>>>
    ELSE read_section("grants")

CapabilityManagerOps == {"grant", "check", "revoke", "active_grants", "cleanup_expired"}

\* the steps of a ConsentLedger call: log_grant, log_revoke and log_deny
\* build their entry before they ask for the write lock
ConsentLedger_locks(op, agent_id, capability, duration_s, reason) ==
    IF op \in {"log_grant", "log_revoke", "log_deny"}
    THEN <<<<"ConsentEntry", agent_id,
             IF op = "log_grant" THEN ConsentAction_Grant(capability, duration_s)
             ELSE IF op = "log_revoke" THEN ConsentAction_Revoke(capability)
             ELSE ConsentAction_Deny(capability, reason)>>,
           Acquire("entries", "write"), <<"entries_push">>>>
    ELSE read_section("entries")

ConsentLedgerOps == {"log_grant", "log_revoke", "log_deny", "get_all", "get_for_agent", "export"}

\* the steps of a TokenVault call; the OS keychain is behind no RwLock
TokenVault_locks(op, label, token) ==
    IF op = "lock" THEN <<Acquire("locked", "write"), <<"set_locked", TRUE>>>>
    ELSE IF op = "unlock"
    THEN <<Acquire("locked", "write"), <<"set_locked", FALSE>>>>
    ELSE IF op = "is_locked" THEN read_section("locked")
    ELSE IF op = "rotate_keys" THEN <<>>
    ELSE locked_check \o
         ( IF backend = "OsKeychain"
           THEN IF op = "store" THEN <<<<"set_password", label, token>>>>
                ELSE IF op = "delete" THEN <<<<"delete_credential", label>>>>
                ELSE <<>>
           ELSE IF op = "fetch" THEN read_section("in_memory_store")
           ELSE IF op = "store"
           THEN <<Acquire("in_memory_store", "write"), <<"store_insert", label, token>>>>
           ELSE <<Acquire("in_memory_store", "write"), <<"store_remove", label>>>> )

TokenVaultOps == {"store", "fetch", "delete", "lock", "unlock", "is_locked", "rotate_keys"}

\* the steps of an AgentRegistry call other than discover; a register whose
\* manifest does not load returns before the lock
AgentRegistry_locks(op, agent_dir, name, enabled) ==
    IF op = "register"
    THEN IF register_load(agent_dir).kind = "Ok"
         THEN <<Acquire("agents", "write"), <<"agents_insert", agent_dir>>>>
         ELSE <<>>
    ELSE IF op = "set_enabled"
    THEN <<Acquire("agents", "write"), <<"set_enabled", name, enabled>>>>
    ELSE read_section("agents")

AgentRegistryOps == {"register", "get", "list", "set_enabled", "get_by_sandbox"}

\* the entries of a directory walk that get as far as the insert of register
registered(visited) ==
    SelectSeq(visited, LAMBDA path :
        is_dir(path) /\ exists(manifest_path(path)) /\ register_load(path).kind = "Ok")

\* faulty variant of discover_locks: the map is read-locked for the whole
\* loop, to pass over the agents that are registered already
discover_locks_holds_read(visited) ==
    <<Acquire("agents", "read")>>
        \o [k \in 1..(2 * Len(registered(visited))) |->
                IF k % 2 = 1 THEN Acquire("agents", "write")
                ELSE <<"agents_insert", registered(visited)[k \div 2]>>]
        \o <<Release("agents")>>

\* the steps of AgentRegistry::discover over the entries it visits, in the
\* order read_dir yields them: each register takes and drops the write lock
discover_locks(visited) ==
    [k \in 1..(2 * Len(registered(visited))) |->
        IF k % 2 = 1 THEN Acquire("agents", "write")
        ELSE <<"agents_insert", registered(visited)[k \div 2]>>]

\* the steps of an OAuthBroker call that goes to the vault; request_token_pkce
\* draws the id of its handle first and stores under it
OAuthBroker_locks(op, handle) ==
    IF op = "request_token_pkce" THEN <<<<"Uuid_new_v4">>>>
    ELSE IF op = "revoke" THEN TokenVault_locks("delete", handle.id, None)
    ELSE IF op = "get_token" THEN TokenVault_locks("fetch", handle.id, None)
    ELSE <<>>

OAuthBrokerOps == {"request_token_pkce", "refresh", "revoke", "get_token"}

\* OAuthBroker::register_provider
register_provider_locks(name, config) ==
    <<Acquire("providers", "write"),
      <<"insert_provider", name, config>>>>

\* OAuthBroker::request_token_device_code: `providers` is the read guard, and
\* `config` borrows from it, to the end of the function; vault.store follows
\* the draw of the handle's id
request_token_device_code_locks(provider) ==
    <<Acquire("providers", "read"),
      <<"get_provider", provider>>,
      <<"device_authorization", provider>>,
      <<"Uuid_new_v4">>,
      Release("providers")>>

\* the locks task t has asked for a guard of and not been given it
waited_by(t) ==
    {l \in RwLocks : \E i \in DOMAIN rwlock[l].queue : rwlock[l].queue[i][1] = t}

Waiting(t) == waited_by(t) # {}

\* the locks a task holds a guard of
held_by(t) == {l \in RwLocks : \E h \in rwlock[l].held : h[1] = t}

\* whether a guard of the mode can be given beside the guards held
compatible(held, mode) ==
    IF mode = "write" THEN held = {} ELSE \A h \in held : h[2] = "read"

\* tokio's RwLock is fair: the tasks queued for a guard are served in the
\* order they asked, a reader behind a queued writer waits
RECURSIVE wake(_, _)
wake(held, queue) ==
    IF queue # <<>> /\ compatible(held, Head(queue)[2])
    THEN wake(held \cup {Head(queue)}, Tail(queue))
    ELSE [held |-> held, queue |-> queue]

\* read().await and write().await as asked by task t
rwlock_acquire(t, rw, mode) ==
    [rwlock EXCEPT ![rw] = wake(@.held, Append(@.queue, <<t, mode>>))]

\* the guards of task t on the locks are dropped
rwlock_release(t, locks) ==
    [l \in RwLocks |->
        IF l \in locks
        THEN wake({h \in rwlock[l].held : h[1] # t}, rwlock[l].queue)
        ELSE rwlock[l]]

\* what the calls followed through their lock steps leave alone: the clock,
\* the values the calls return and the histories kept of them
LockFrame ==
    UNCHANGED <<now, cap_ret, cap_hist, grant_pc, active_pc, ledger_pc, ledger_ret,
                runtimeVars, parseVars, manifestVars, registry_ret, discover_pc,
                backend, vault_pc, vault_ret, vault_hist, vault_snap, broker_pc,
                broker_ret>>

\* what is behind the locks, with the counters of grants and of handle ids
LockData ==
    <<locked, providers, grants, issued, entries, in_memory_store, keychain, agents, uuids>>

\* no lock is held and no call is in flight
LockInit ==
    /\ rwlock = [l \in RwLocks |-> [held |-> {}, queue |-> <<>>]]
    /\ task_pc = [t \in Tasks |-> <<>>]
    /\ calls = 0

\* the calls in flight that have a handle id to draw yet
draws_ahead ==
    Cardinality({t \in Tasks :
        \E i \in DOMAIN task_pc[t] : task_pc[t][i][1] = "Uuid_new_v4"})

\* task t calls an operation: its steps are ahead of it.  MaxCalls bounds the
\* calls of one behaviour, and the ids Uuid::new_v4() can return are those of
\* Labels.
spawn(t, steps) ==
    /\ task_pc[t] = <<>>
    /\ steps # <<>>
    /\ calls < MaxCalls
    /\ (\E i \in DOMAIN steps : steps[i][1] = "Uuid_new_v4") =>
            Cardinality(uuids) + draws_ahead < Cardinality(Labels)
    /\ task_pc' = [task_pc EXCEPT ![t] = steps]
    /\ calls' = calls + 1
    /\ UNCHANGED rwlock
    /\ UNCHANGED LockData
    /\ LockFrame

\* the call of task t returns: every guard it holds is dropped
return(t) ==
    /\ task_pc' = [task_pc EXCEPT ![t] = <<>>]
    /\ rwlock' = rwlock_release(t, held_by(t))

\* the call of task t goes on to its next step
continue(t) ==
    IF Len(task_pc[t]) = 1 THEN return(t)
    ELSE /\ task_pc' = [task_pc EXCEPT ![t] = Tail(@)]
         /\ UNCHANGED rwlock

\* the statement of task t under the guard of rw is done and the guard goes
\* out of scope
finish(t, rw) ==
    /\ rwlock' = rwlock_release(t, {rw})
    /\ task_pc' = [task_pc EXCEPT ![t] = Tail(@)]

\* the runtime polls task t: the call takes its next step, unless it waits
\* for a guard
poll(t) ==
    /\ task_pc[t] # <<>>
    /\ ~Waiting(t)
    /\ LET step == Head(task_pc[t])
       IN  CASE step[1] = "acquire" ->
                    /\ rwlock' = rwlock_acquire(t, step[2], step[3])
                    /\ task_pc' = [task_pc EXCEPT ![t] = Tail(@)]
                    /\ UNCHANGED LockData
             [] step[1] = "release" ->
                    /\ finish(t, step[2])
                    /\ UNCHANGED LockData
             [] step[1] = "bail_if_locked" ->
                    /\ IF locked THEN return(t) ELSE finish(t, "locked")
                    /\ UNCHANGED LockData
             [] step[1] = "set_locked" ->
                    /\ locked' = step[2]
                    /\ finish(t, "locked")
                    /\ UNCHANGED <<providers, grants, issued, entries, in_memory_store,
                                   keychain, agents, uuids>>
             [] step[1] = "insert_provider" ->
                    /\ providers' = HashMap_insert(providers, step[2], step[3])
                    /\ finish(t, "providers")
                    /\ UNCHANGED <<locked, grants, issued, entries, in_memory_store,
                                   keychain, agents, uuids>>
             [] step[1] = "get_provider" ->
                    /\ IF step[2] \in DOMAIN providers THEN continue(t) ELSE return(t)
                    /\ UNCHANGED LockData
             [] step[1] = "device_authorization" ->
                    /\ \/ return(t)
                       \/ providers[step[2]].device_auth_url # None /\ continue(t)
                    /\ UNCHANGED LockData
             [] step[1] = "Uuid_new_v4" ->
                    \E id \in Labels \ uuids :
                        /\ uuids' = uuids \cup {id}
                        /\ task_pc' = [task_pc EXCEPT ![t] =
                                TokenVault_locks("store", id, "placeholder-token") \o Tail(@)]
                        /\ UNCHANGED rwlock
                        /\ UNCHANGED <<locked, providers, grants, issued, entries,
                                       in_memory_store, keychain, agents>>
             [] step[1] = "store_insert" ->
                    /\ in_memory_store' = HashMap_insert(in_memory_store, step[2], step[3])
                    /\ finish(t, "in_memory_store")
                    /\ UNCHANGED <<locked, providers, grants, issued, entries, keychain,
                                   agents, uuids>>
             [] step[1] = "store_remove" ->
                    /\ in_memory_store' = HashMap_remove(in_memory_store, step[2])
                    /\ finish(t, "in_memory_store")
                    /\ UNCHANGED <<locked, providers, grants, issued, entries, keychain,
                                   agents, uuids>>
             [] step[1] = "set_password" ->
                    /\ keychain' = HashMap_insert(keychain, step[2], step[3])
                    /\ continue(t)
                    /\ UNCHANGED <<locked, providers, grants, issued, entries,
                                   in_memory_store, agents, uuids>>
             [] step[1] = "delete_credential" ->
                    /\ keychain' = HashMap_remove(keychain, step[2])
                    /\ continue(t)
                    /\ UNCHANGED <<locked, providers, grants, issued, entries,
                                   in_memory_store, agents, uuids>>
             [] step[1] = "CapabilityGrant_new" ->
                    /\ issued' = issued + 1
                    /\ task_pc' = [task_pc EXCEPT ![t] =
                            <<@[2], <<"grants_push",
                                      CapabilityGrant_new(step[2], step[3], issued + 1)>>>>]
                    /\ UNCHANGED rwlock
                    /\ UNCHANGED <<locked, providers, grants, entries, in_memory_store,
                                   keychain, agents, uuids>>
             [] step[1] = "grants_push" ->
                    /\ grants' = Append(grants, step[2])
                    /\ finish(t, "grants")
                    /\ UNCHANGED <<locked, providers, issued, entries, in_memory_store,
                                   keychain, agents, uuids>>
             [] step[1] = "revoke_loop" ->
                    /\ grants' = revoke_loop(grants, step[2])
                    /\ finish(t, "grants")
                    /\ UNCHANGED <<locked, providers, issued, entries, in_memory_store,
                                   keychain, agents, uuids>>
             [] step[1] = "cleanup_retain" ->
                    /\ grants' = cleanup_retain(grants, now)
                    /\ finish(t, "grants")
                    /\ UNCHANGED <<locked, providers, issued, entries, in_memory_store,
                                   keychain, agents, uuids>>
             [] step[1] = "ConsentEntry" ->
                    /\ task_pc' = [task_pc EXCEPT ![t] =
                            <<@[2], <<"entries_push", ConsentEntry(now, step[2], step[3])>>>>]
                    /\ UNCHANGED rwlock
                    /\ UNCHANGED LockData
             [] step[1] = "entries_push" ->
                    /\ entries' = Vec_push(entries, step[2])
                    /\ finish(t, "entries")
                    /\ UNCHANGED <<locked, providers, grants, issued, in_memory_store,
                                   keychain, agents, uuids>>
             [] step[1] = "agents_insert" ->
                    /\ agents' = register_insert(step[2])
                    /\ finish(t, "agents")
                    /\ UNCHANGED <<locked, providers, grants, issued, entries,
                                   in_memory_store, keychain, uuids>>
             [] step[1] = "set_enabled" ->
                    /\ agents' = IF step[2] \in DOMAIN agents
                                 THEN [agents EXCEPT ![step[2]].enabled = step[3]]
                                 ELSE agents
                    /\ finish(t, "agents")
                    /\ UNCHANGED <<locked, providers, grants, issued, entries,
                                   in_memory_store, keychain, uuids>>
    /\ UNCHANGED calls
    /\ LockFrame

\* calls of the five components by NumTasks tasks, interleaved at their
\* lock steps
LockNext ==
    \/ \E t \in Tasks, op \in CapabilityManagerOps, c \in Caps, d \in {None} :
            spawn(t, CapabilityManager_locks(op, c, d))
    \/ \E t \in Tasks, op \in ConsentLedgerOps, a \in Agents, c \in LedgerCapabilities,
          d \in LedgerDurations, r \in Reasons :
            spawn(t, ConsentLedger_locks(op, a, c, d, r))
    \/ \E t \in Tasks, op \in TokenVaultOps, l \in Labels, k \in Tokens :
            spawn(t, TokenVault_locks(op, l, k))
    \/ \E t \in Tasks, op \in AgentRegistryOps, dir \in Dirs, n \in AgentNames,
          enabled \in BOOLEAN :
            spawn(t, AgentRegistry_locks(op, dir, n, enabled))
    \/ \E t \in Tasks, order \in Orders(Dirs), visited \in 0..Cardinality(Dirs) :
            spawn(t, discover_locks(SubSeq(order, 1, visited)))
    \/ \E t \in Tasks, op \in OAuthBrokerOps, h \in Handles : spawn(t, OAuthBroker_locks(op, h))
    \/ \E t \in Tasks, name \in ProviderNames, config \in ProviderConfigs :
            spawn(t, register_provider_locks(name, config))
    \/ \E t \in Tasks, provider \in ProviderNames :
            spawn(t, request_token_device_code_locks(provider))
    \/ \E t \in Tasks : poll(t)

\* the components added after the broker, before any call
AgentsIdle == ParseInit /\ ManifestInit /\ NoManifests /\ RegistryInit /\ LockInit

\* the vault alone, called by NumTasks tasks, beside a fresh CapabilityManager
VaultSpecInit ==
    VaultInit /\ CapInit /\ LedgerInit /\ NoRuntime /\ BrokerInit /\ AgentsIdle

VaultSpec == VaultSpecInit /\ [][VaultNext]_vars

\* the ledger alone, logged to and queried by NumTasks tasks while time passes
LedgerSpecInit ==
    /\ LedgerInit /\ CapInit /\ VaultInit /\ NoRuntime /\ BrokerInit /\ AgentsIdle
    /\ backend = "InMemory"

\* the runtime and its capability manager, beside an idle vault and ledger
RuntimeSpecInit ==
    /\ RuntimeInit /\ CapInit /\ VaultInit /\ LedgerInit /\ BrokerInit /\ AgentsIdle
    /\ backend = "InMemory"

RuntimeSpec == RuntimeSpecInit /\ [][RuntimeNext]_vars

\* the broker over the in-memory vault its test builds, beside a fresh ledger,
\* and manager; no runtime is built
BrokerSpecInit ==
    /\ BrokerInit /\ VaultInit /\ CapInit /\ LedgerInit /\ NoRuntime /\ AgentsIdle
    /\ backend = "InMemory"

BrokerSpec == BrokerSpecInit /\ [][BrokerNext]_vars

\* the broker with both providers registered, over the in-memory vault
HandleSpecInit ==
    /\ VaultInit /\ CapInit /\ LedgerInit /\ NoRuntime /\ AgentsIdle
    /\ backend = "InMemory"
    /\ providers = [n \in HandleProviders |-> DeviceConfig]
    /\ uuids = {}
    /\ broker_pc = [t \in Tasks |-> BrokerIdle]
    /\ broker_ret = BrokerRet("register_provider", None, "Ok", None)

HandleSpec == HandleSpecInit /\ [][HandleNext]_vars

LedgerSpec == LedgerSpecInit /\ [][LedgerNext]_vars

\* the capability manager alone, beside an idle in-memory vault
CapSpecInit ==
    /\ CapInit /\ VaultInit /\ LedgerInit /\ NoRuntime /\ BrokerInit /\ AgentsIdle
    /\ backend = "InMemory"

CapSpec == CapSpecInit /\ [][CapNext]_vars

\* the other components idle, beside an in-memory vault
OthersIdle ==
    /\ CapInit /\ VaultInit /\ LedgerInit /\ NoRuntime /\ BrokerInit /\ LockInit
    /\ backend = "InMemory"

\* Capability::parse called on every string of at most MaxSegments segments
ParseSpecInit == ParseInit /\ ManifestInit /\ NoManifests /\ RegistryInit /\ OthersIdle

ParseSpec == ParseSpecInit /\ [][ParseNext]_vars

\* Manifest::load and validate called on manifest files of every content
ManifestSpecInit ==
    /\ ManifestInit
    /\ \E entry \in {RegularFile, Directory(None)} \cup {Directory(Some(c)) : c \in Contents} :
            fs = [dir \in Dirs |-> IF dir = "agents/one" THEN entry ELSE Directory(None)]
    /\ ParseInit /\ RegistryInit /\ OthersIdle

ManifestSpec == ManifestSpecInit /\ [][ManifestNext]_vars

\* the manifest files the agent directories of the registry hold: two that
\* load, under different names, and three that do not
TestAgentWasm ==
    [toml |-> "table", schema_version |-> "0.1", name |-> Some("Test Agent"),
     entry |-> "agent.wasm", sandbox |-> "wasm", capabilities |-> <<FilesRead, Network>>]

TestNative ==
    [toml |-> "table", schema_version |-> "0.1", name |-> Some("Test"),
     entry |-> "agent.wasm", sandbox |-> "native", capabilities |-> <<FilesRead>>]

TestAgentSchema02 ==
    [toml |-> "table", schema_version |-> "0.2", name |-> Some("Test Agent"),
     entry |-> "agent.wasm", sandbox |-> "wasm", capabilities |-> <<FilesRead>>]

TestEmptyEntry ==
    [toml |-> "table", schema_version |-> "0.1", name |-> Some("Test"),
     entry |-> "", sandbox |-> "wasm", capabilities |-> <<>>]

\* what the path of each agent directory is in the file systems the registry
\* is run over: between them a regular file, a directory without
\* manifest.toml, manifests of one name in two directories, and manifests
\* that do not parse or do not pass validation
RegistryFiles(dir) ==
    IF dir = "agents/one"
    THEN {RegularFile, Directory(None), Directory(Some(TestAgentWasm))}
    ELSE IF dir = "agents/two"
    THEN {Directory(Some(TestAgentWasm)), Directory(Some(TestNative)),
          Directory(Some(TestAgentSchema02))}
    ELSE {Directory(Some(TestNative)), Directory(Some(TestEmptyEntry)),
          Directory(Some(Malformed))}

\* a vault over the OS keychain or over the map behind its RwLock, fresh or
\* after lock()
Lockable ==
    /\ backend \in {"OsKeychain", "InMemory"}
    /\ in_memory_store = HashMap_new
    /\ keychain = HashMap_new
    /\ vault_pc = [t \in Tasks |-> Idle]
    /\ vault_hist = [l \in Labels |-> Untouched]
    /\ \/ /\ locked = FALSE
          /\ vault_ret = VaultRet("new", None, "Ok", None)
          /\ vault_snap = None
       \/ /\ locked = TRUE
          /\ vault_ret = VaultRet("lock", None, "Ok", None)
          /\ vault_snap = Some(HashMap_new)

\* a broker, fresh or after a register_provider
Registered ==
    /\ uuids = {}
    /\ broker_pc = [t \in Tasks |-> BrokerIdle]
    /\ \/ /\ providers = HashMap_new
          /\ broker_ret = BrokerRet("new", None, "Ok", None)
       \/ /\ \E name \in ProviderNames, config \in ProviderConfigs :
                providers = HashMap_insert(HashMap_new, name, config)
          /\ broker_ret = BrokerRet("register_provider", None, "Ok", None)

\* two agent directories whose manifests load, and one whose manifest does not
TwoAgents ==
    [dir \in Dirs |->
        Directory(Some(
            IF dir = "agents/one"
            THEN [toml |-> "table", schema_version |-> "0.1", name |-> Some("Test Agent"),
                  entry |-> "agent.wasm", sandbox |-> "wasm",
                  capabilities |-> <<FilesRead, Network>>]
            ELSE IF dir = "agents/two"
            THEN [toml |-> "table", schema_version |-> "0.1", name |-> Some("Test"),
                  entry |-> "agent.wasm", sandbox |-> "native",
                  capabilities |-> <<FilesRead>>]
            ELSE Malformed))]

\* a fresh registry over agent directories of every kind
RegistrySpecInit ==
    /\ RegistryInit
    /\ fs \in {files \in [Dirs -> UNION {RegistryFiles(dir) : dir \in Dirs}] :
                    \A dir \in Dirs : files[dir] \in RegistryFiles(dir)}
    /\ ParseInit /\ ManifestInit /\ OthersIdle

RegistrySpec == RegistrySpecInit /\ [][RegistryNext]_vars

\* the calls of the components at the grain of their lock steps, over a
\* vault of any backend; the runtime polls every task that can take a step
LockSpecInit ==
    /\ LockInit /\ CapInit /\ LedgerInit /\ NoRuntime
    /\ ParseInit /\ ManifestInit /\ RegistryInit
    /\ fs = TwoAgents
    /\ Lockable
    /\ Registered

LockSpec ==
    /\ LockSpecInit
    /\ [][LockNext]_vars
    /\ \A t \in Tasks : WF_vars(poll(t))

\* the whole control plane: every component's calls interleaved
Init ==
    /\ CapInit /\ VaultInit /\ LedgerInit /\ RuntimeInit /\ BrokerInit
    /\ ParseInit /\ ManifestInit /\ RegistryInit /\ LockInit
    /\ fs \in [Dirs -> {RegularFile, Directory(None)} \cup {Directory(Some(c)) : c \in Contents}]

Next ==
    \/ CapNext \/ VaultNext \/ LedgerNext \/ RuntimeNext \/ BrokerNext \/ ParseNext
    \/ ManifestNext \/ RegistryNext \/ LockNext

Spec == Init /\ [][Next]_vars

\* ------------------------------------------------- claims: CapabilityManager

\* what the specification says check(c) returns in the current state
Allowed(c) ==
    \E i \in DOMAIN grants :
        /\ grants[i].capability = c
        /\ grants[i].revoked = FALSE
        /\ (grants[i].expires_at = None \/ \A e \in grants[i].expires_at : now <= e)

\* C1: default deny.  In every reachable state check(c) returns true iff the
\* list holds a grant for c that is not revoked and whose expiry, if any, has
\* not passed; on an empty list every check(c) returns false.
C1_DefaultDeny ==
    [][\A c \in Caps :
         /\ check_any(grants, now, c) = Allowed(c)
         /\ (cap_ret'.op = "check" /\ check(c)) =>
                /\ cap_ret'.ok = Allowed(c)
                /\ (grants = <<>> => cap_ret'.ok = FALSE)]_vars

\* C1 witness: check(c) returned true while the list also holds a grant for c
\* that no longer counts
C1_Witness ==
    /\ cap_ret.op = "check"
    /\ cap_ret.ok
    /\ \E i \in DOMAIN grants :
         /\ Some(grants[i].capability) = cap_ret.cap
         /\ (grants[i].revoked \/ \E e \in grants[i].expires_at : now > e)

\* C2: revocation is terminal.  A grant whose revoked flag is set is not valid,
\* and after any step the same grant, if still in the list, has the flag set
\* and is not valid, whatever its expires_at.
C2_RevocationTerminal ==
    [][\A i \in DOMAIN grants :
         grants[i].revoked =>
            /\ ~is_valid(grants[i], now)
            /\ \A j \in DOMAIN grants' :
                 grants'[j].id = grants[i].id =>
                    /\ grants'[j].revoked
                    /\ ~is_valid(grants'[j], now')]_vars

\* C2 witness: a revoked grant without expiry is still in the list at a later
\* time, after another grant was made
C2_Witness ==
    \E i \in DOMAIN grants :
        /\ grants[i].revoked
        /\ grants[i].expires_at = None
        /\ now > grants[i].granted_at
        /\ \E j \in DOMAIN grants : j > i /\ ~grants[j].revoked

\* C3: after a successful revoke(c), check(c) is false until grant(c, _) is
\* called again, however many grants for c there were.
C3_RevokeThenDenied ==
    \A c \in Caps :
        cap_hist[c].revoked_ok =>
            /\ ~check_any(grants, now, c)
            /\ (cap_ret.op = "check" /\ cap_ret.cap = Some(c) => ~cap_ret.ok)

\* C3 witness: two grants for c were revoked by one revoke(c), and a later
\* check(c) has returned
C3_Witness ==
    \E c \in Caps :
        /\ cap_hist[c].revoked_ok
        /\ Len(grants) = 2
        /\ \A i \in DOMAIN grants : grants[i].capability = c
        /\ cap_ret.op = "check"
        /\ cap_ret.cap = Some(c)

\* C4: revoke(c) succeeds iff the list holds a grant for c with revoked = false
\* (expired or not); when it fails the list is unchanged.
C4_RevokeStrict ==
    [][\A c \in Caps :
         (cap_ret'.op = "revoke" /\ revoke(c)) =>
            /\ cap_ret'.ok =
                 (\E i \in DOMAIN grants :
                     grants[i].capability = c /\ grants[i].revoked = FALSE)
            /\ (~cap_ret'.ok => grants' = grants)]_vars

\* C4 witness: revoke(c) failed on a capability whose grant is already revoked
C4_Witness ==
    /\ cap_ret.op = "revoke"
    /\ ~cap_ret.ok
    /\ \E i \in DOMAIN grants :
         Some(grants[i].capability) = cap_ret.cap /\ grants[i].revoked

\* C5: after grant(c, None), check(c) is true at every later time and after
\* any other calls, as long as revoke(c) has not been called.
C5_GrantForever ==
    \A c \in Caps :
        cap_hist[c].forever =>
            /\ check_any(grants, now, c)
            /\ (cap_ret.op = "check" /\ cap_ret.cap = Some(c) => cap_ret.ok)

\* C5 witness: c was granted without expiry, another capability was revoked,
\* the clock has reached its end and check(c) has returned
C5_Witness ==
    \E c \in Caps :
        /\ cap_hist[c].forever
        /\ \E o \in Caps \ {c} : cap_hist[o].revoked_ok
        /\ now >= 2
        /\ cap_ret.op = "check"
        /\ cap_ret.cap = Some(c)

\* C6: when grant(c, Some(d)) at time t is the only grant made for c, check(c)
\* is true while now <= t + d and false afterwards, and the grant still has
\* the fields it was created with.
C6_TimeBounded ==
    \A c \in Caps :
        \A g \in cap_hist[c].sole :
            \A d \in g.d :
                /\ g.t <= now
                /\ check_any(grants, now, c) = (now <= g.t + d)
                /\ (cap_ret.op = "check" /\ cap_ret.cap = Some(c) /\ now <= g.t + d
                        => cap_ret.ok)
                /\ \E i \in DOMAIN grants :
                     /\ grants[i].capability = c
                     /\ grants[i].granted_at = g.t
                     /\ grants[i].expires_at = Some(g.t + d)
                     /\ grants[i].revoked = FALSE

\* C6 witness: the only grant for c has expired and check(c) has returned false
C6_Witness ==
    \E c \in Caps :
        /\ \E g \in cap_hist[c].sole : \E d \in g.d : d > 0 /\ now > g.t + d
        /\ cap_ret = CapRet("check", Some(c), FALSE, <<>>)

\* ---------------------------------------------------------- claims: TokenVault

\* a call refused by the lock check: a Locked error, no secret, nothing stored
\* or removed, and the call is over
Refused(op, label) ==
    /\ vault_ret' = VaultRet(op, Some(label), "Locked", None)
    /\ in_memory_store' = in_memory_store
    /\ keychain' = keychain
    /\ vault_pc' = vault_pc

\* C7: lock gating.  A store, fetch or delete called while the vault is locked
\* returns a Locked error and no secret and leaves the backing store as it
\* was, for a label that is present as for one that is not.
C7_LockGating ==
    [][\A t \in Tasks, l \in Labels :
         locked =>
            /\ \A k \in Tokens : store_begin(t, l, k) => Refused("store", l)
            /\ fetch_begin(t, l) => Refused("fetch", l)
            /\ delete_begin(t, l) => Refused("delete", l)]_vars

\* C7 witness: the vault is locked and a delete of a label that is present has
\* returned the Locked error
C7_Witness ==
    /\ locked
    /\ vault_ret.op = "delete"
    /\ vault_ret.kind = "Locked"
    /\ \E l \in vault_ret.label : l \in DOMAIN vault_entries

\* C8: under concurrent callers no data operation takes effect while the
\* locked flag is true: no step taken with the flag set changes the backing
\* store or returns a secret from it.
C8_NoEffectWhileLocked ==
    [][locked =>
         /\ in_memory_store' = in_memory_store
         /\ \A t \in Tasks : fetch_body(t) => vault_ret'.kind # "Ok"]_vars

\* C9: lock() and unlock() never change the stored data.  From a lock() on,
\* through unlock(), reads and refused calls, every label still holds what it
\* held when lock() was called, and a fetch that succeeds returns it.
C9_LockKeepsData ==
    \A snap \in vault_snap :
        /\ vault_entries = snap
        /\ (vault_ret.op = "fetch" /\ vault_ret.kind = "Ok") =>
              \A l \in vault_ret.label : vault_ret.val = HashMap_get(snap, l)

\* C9 witness: after lock(), a refused call or more, and unlock(), a fetch has
\* returned the secret stored before the lock()
C9_Witness ==
    /\ ~locked
    /\ vault_ret.op = "fetch"
    /\ vault_ret.kind = "Ok"
    /\ \E snap \in vault_snap : \E l \in vault_ret.label : l \in DOMAIN snap

\* C10: round trip on the in-memory and encrypted-file backends.  A fetch that
\* passes the lock check returns the secret of the last store of its label not
\* followed by a delete, and NotFound when there is none.
C10_RoundTrip ==
    (backend # "OsKeychain" /\ vault_ret.op = "fetch" /\ vault_ret.kind # "Locked") =>
        \A l \in vault_ret.label :
            IF vault_hist[l].secret = None
            THEN vault_ret.kind = "NotFound" /\ vault_ret.val = None
            ELSE vault_ret.kind = "Ok" /\ vault_ret.val = vault_hist[l].secret

\* C10 witness: a fetch has returned the secret of a second store of its label
C10_Witness ==
    /\ backend # "OsKeychain"
    /\ vault_ret.op = "fetch"
    /\ vault_ret.kind = "Ok"
    /\ \E l \in vault_ret.label : vault_hist[l].overwritten

\* C11: delete is idempotent on every backend.  A delete that passed the lock
\* check returns success whether or not its label is present, and when the
\* label is absent it leaves the entries as they were.
C11_DeleteIdempotent ==
    [][\A t \in Tasks : delete_body(t) =>
         /\ vault_ret'.kind = "Ok"
         /\ \A l \in vault_pc[t].label :
                l \notin DOMAIN vault_entries =>
                    in_memory_store' = in_memory_store /\ keychain' = keychain]_vars

\* C12: the vault is a two-state machine.  Every constructor leaves it
\* unlocked; lock() leaves it locked and unlock() leaves it unlocked whatever
\* it was before; is_locked() returns the flag; no other call changes the flag.
C12_TwoStateMachine ==
    /\ locked = FALSE
    /\ [][/\ \A t \in Tasks :
               /\ lock(t) => locked' = TRUE
               /\ unlock(t) => locked' = FALSE
               /\ is_locked(t) => vault_ret'.val = Some(locked) /\ locked' = locked
          /\ locked' # locked => \E t \in Tasks : lock(t) \/ unlock(t)]_vars

\* C12 witness: the vault is locked, with a store past its lock check, and
\* is_locked() has returned true
C12_Witness ==
    /\ locked
    /\ vault_ret.op = "is_locked"
    /\ vault_ret.val = Some(TRUE)
    /\ \E t \in Tasks : vault_pc[t].op = "store"

\* ------------------------------------------------------ claims: ConsentLedger

\* list a is list b cut after its first Len(a) elements
IsPrefix(a, b) == Len(a) <= Len(b) /\ SubSeq(b, 1, Len(a)) = a

\* C13: the ledger is append-only.  Every step leaves the entries it found as
\* a prefix of the entries it leaves, so nothing is modified, reordered or
\* removed; only the push of a log_* call changes the list, and it adds exactly
\* the one entry the call built, at the end, and returns Ok.
C13_AppendOnly ==
    [][/\ IsPrefix(entries, entries')
       /\ entries' # entries => \E t \in Tasks : entries_push(t)
       /\ \A t \in Tasks : entries_push(t) =>
             \E p \in ledger_pc[t] :
                /\ entries' = entries \o <<p.entry>>
                /\ ledger_ret'.op = p.op
                /\ ledger_ret'.kind = "Ok"]_vars

\* C13 witness: an agent's grant was logged, then its revoke of the same
\* capability, and both entries are in the list in that order
C13_Witness ==
    /\ Len(entries) = 2
    /\ ledger_ret.op = "log_revoke"
    /\ entries[1].action.kind = "Grant"
    /\ entries[2].action.kind = "Revoke"
    /\ entries[1].agent_id = entries[2].agent_id
    /\ entries[1].action.capability = entries[2].action.capability

\* positions of the entries of agent a
Matches(a) == {i \in DOMAIN entries : entries[i].agent_id = a}

\* the k-th smallest element of a set of numbers
Kth(S, k) == CHOOSE i \in S : Cardinality({j \in S : j <= i}) = k

\* C14: queries preserve order.  get_all() returns the whole list in append
\* order; get_for_agent(a) returns the entries whose agent_id is a, all of
\* them and no other, in the order they have in the list.
C14_QueryOrder ==
    [][/\ get_all => ledger_ret'.val = entries
       /\ \A a \in Agents : get_for_agent(a) =>
             /\ Len(ledger_ret'.val) = Cardinality(Matches(a))
             /\ \A k \in 1..Cardinality(Matches(a)) :
                    ledger_ret'.val[k] = entries[Kth(Matches(a), k)]]_vars

\* C14 witness: get_for_agent(a) returned one entry, the second of a list
\* whose first entry is another agent's
C14_Witness ==
    /\ ledger_ret.op = "get_for_agent"
    /\ Len(entries) = 2
    /\ Len(ledger_ret.val) = 1
    /\ ledger_ret.val[1] = entries[2]
    /\ entries[1].agent_id # entries[2].agent_id

\* C15: append order is timestamp order: along the list no entry carries an
\* earlier timestamp than the entry before it.
C15_TimestampOrder ==
    \A i \in 1..(Len(entries) - 1) : entries[i].timestamp <= entries[i + 1].timestamp

\* ------------------------------------------------------- claims: AgentRuntime

\* the checks of the latest execute call that returned false
Denied == {k \in DOMAIN exec_ret.seen : ~exec_ret.seen[k].ok}

\* C16: an execute call whose check of a declared capability returned false
\* emits a ConsentRequest event for that capability and does not dispatch to
\* the WASM or native backend (nothing in the call resolves the request).
C16_ConsentRequestBlocks ==
    \A k \in Denied :
        /\ exec_ret.dispatched = None
        /\ \E j \in DOMAIN exec_ret.events :
              /\ exec_ret.events[j].event_type.type = "ConsentRequest"
              /\ Capability_parse(exec_ret.events[j].event_type.capability)
                    = Some(exec_ret.seen[k].capability)

\* C17: when the check of a declared capability returned false, the events
\* execute returns contain an Error event; execute never returns a normal
\* result without one in that case.
C17_DenialIsErrorEvent ==
    (exec_ret.kind = "Ok" /\ Denied # {}) =>
        \E j \in DOMAIN exec_ret.events :
            /\ exec_ret.events[j].event_type.type = "Error"
            /\ exec_ret.events[j].event_type.code # ""

\* C18: within one execute call every declared capability has been parsed and
\* checked, in manifest order, when the call dispatches to its backend, and the
\* dispatch ends the call, so none of its checks follows or interleaves.
C18_ChecksBeforeDispatch ==
    [][\A call \in ExecuteCalls :
          (exec_pc[call].at = "loop" /\ exec_ret'.dispatched # None /\ execute_dispatch(call)) =>
              /\ \A m \in exec_pc[call].manifest :
                    /\ Len(exec_pc[call].seen) = Len(m.capabilities)
                    /\ \A k \in DOMAIN m.capabilities :
                          Capability_parse(m.capabilities[k]) = Some(exec_pc[call].seen[k].capability)
                    /\ exec_ret'.seen = exec_pc[call].seen
              /\ exec_pc'[call] = NoExec]_vars

\* C18 witness: a call with two declared capabilities has dispatched after
\* both checks
C18_Witness ==
    /\ exec_ret.dispatched # None
    /\ Len(exec_ret.seen) = 2
    /\ exec_ret.seen[1].capability # exec_ret.seen[2].capability

\* C19: check-then-use is not atomic.  An execute call that saw check(c)
\* return true still dispatches to its backend, and returns the backend's
\* events, after a concurrent revoke(c) has succeeded and c is no longer valid.
C19_DispatchDespiteRevoke ==
    exec_ret.revoked # {} =>
        /\ exec_ret.kind = "Ok"
        /\ exec_ret.dispatched # None
        /\ Len(exec_ret.events) = 1
        /\ exec_ret.events[1].event_type.type = "Input"

\* C19 witness: the call's check of c returned true, revoke(c) then returned
\* true, c was not valid at the dispatch, and the call dispatched
C19_Witness ==
    /\ exec_ret.dispatched # None
    /\ \E c \in exec_ret.revoked :
          /\ \E k \in DOMAIN exec_ret.seen :
                exec_ret.seen[k].capability = c /\ exec_ret.seen[k].ok
          /\ cap_hist[c].revoked_ok
          /\ ~check_any(grants, now, c)

\* -------------------------------------------------------- claims: OAuthBroker

\* C20: an OAuthBroker.revoke(handle) that has returned success has deleted
\* the vault entry under handle.id and has appended a Revoke entry to the
\* ConsentLedger.
C20_RevokeDeletesAndLogs ==
    (broker_ret.op = "revoke" /\ broker_ret.kind = "Ok") =>
        \A h \in broker_ret.handle :
            /\ h.id \notin DOMAIN vault_entries
            /\ \E i \in DOMAIN entries : entries[i].action.kind = "Revoke"

\* ---------------------------------------------------- claims: audit trail

\* the ledger entries of one kind that name capability c
Mirrored(kind, c) ==
    {i \in DOMAIN entries :
        /\ entries[i].action.kind = kind
        /\ entries[i].action.capability = Capability_to_string(c)}

\* C21: every authorization decision is mirrored in the ledger: for each
\* capability there are at least as many Grant entries as grants made, and a
\* Revoke entry once a revoke has succeeded.
C21_AuditMirror ==
    \A c \in Caps :
        /\ Cardinality(Mirrored("Grant", c))
              >= Cardinality({i \in DOMAIN grants : grants[i].capability = c})
        /\ cap_hist[c].revoked_ok => Mirrored("Revoke", c) # {}

\* ------------------------------------------------- claims: Capability::parse

\* the strings with exactly one ".", something before it and something after
TwoNonEmptyParts(str) ==
    Len(str) = 3 /\ str[1] # "." /\ str[2] = "." /\ str[3] # "."

\* C30: Capability::parse(s) succeeds if and only if splitting s on "." gives
\* exactly two parts, both non-empty, and then scope is the first part and
\* action the second; ".read", "files." and "." fail.
C30_ParseTwoNonEmptyParts ==
    parse_ret.op = "parse" =>
        /\ (parse_ret.val # None) = TwoNonEmptyParts(parse_ret.str)
        /\ \A c \in parse_ret.val :
              c.scope = parse_ret.str[1] /\ c.action = parse_ret.str[3]


\* a request of task t returns in this step, or takes one of its steps: a
\* request that returns Ok returns only the handle, which is the handle
\* {fresh id, provider, scopes} built from its arguments, and the vault then
\* holds the request's secret under the handle's id
RequestReturnsHandle(t) ==
    broker_pc'[t] # broker_pc[t] =>
        /\ (request_token_pkce_body(t) \/ request_token_device_code_body(t)) =>
            /\ broker_ret'.kind = "Ok"
            /\ broker_ret'.val = None
            /\ broker_ret'.handle = broker_pc[t].handle
            /\ \A h \in broker_ret'.handle :
                /\ h.id \in DOMAIN vault_entries'
                /\ vault_entries'[h.id] = "placeholder-token"
                /\ vault_hist'[h.id].handle = Some(h)
        /\ \A r \in RequestArguments :
            /\ request_token_pkce(t, r[1], r[2]) =>
                \E id \in Labels : broker_pc'[t].handle = Some(TokenHandle(id, r[1], r[2]))
            /\ request_token_device_code(t, r[1], r[2]) =>
                broker_pc'[t].provider = r[1] /\ broker_pc'[t].scopes = r[2]
        /\ (device_authorization(t) /\ broker_pc'[t] # BrokerIdle) =>
            \E id \in Labels : broker_pc'[t].handle =
                Some(TokenHandle(id, broker_pc[t].provider, broker_pc[t].scopes))

\* the handles that requests have returned and that have not been revoked
\* since, nor had the entry under their id deleted from the vault
HandlesInUse == UNION {vault_hist[l].handle : l \in Labels}

\* the vault holds a secret under the id of every handle in use: the secret of
\* the request, or the secret of a vault store under that id made since
HandlesHeld ==
    \A l \in Labels : \A h \in vault_hist[l].handle :
        /\ h.id = l
        /\ l \in DOMAIN vault_entries
        /\ Some(vault_entries[l]) = vault_hist[l].secret
        /\ ~vault_hist[l].replaced => vault_entries[l] = "placeholder-token"

\* an entry leaves the vault only by a delete of its label, the one revoke
\* makes included
EntriesLeaveByDelete ==
    \A l \in DOMAIN vault_entries :
        l \notin DOMAIN vault_entries' =>
            \E u \in Tasks : vault_pc[u].label = Some(l) /\ delete_body(u)

\* C22 as the specification states it: a request that returns Ok returns only
\* the handle built from its arguments and the vault then holds a secret under
\* the handle's id; until revoke(h) or a vault delete of h.id the vault keeps
\* holding a secret under h.id, and every get_token(h) that returns, returns
\* Ok with the secret held under h.id.
C22_GetTokenAlwaysReturnsSecret ==
    /\ []HandlesHeld
    /\ [][/\ \A t \in Tasks : RequestReturnsHandle(t)
          /\ EntriesLeaveByDelete
          /\ \A t \in Tasks, h \in HandlesInUse :
                (/\ \/ get_token(t, h)
                    \/ get_token_body(t) /\ broker_pc[t].handle = Some(h)
                 /\ broker_pc'[t] = BrokerIdle) =>
                    broker_ret' = BrokerRet("get_token", Some(h), "Ok",
                                            HashMap_get(vault_entries, h.id))
       ]_vars

\* C22: a request that returns Ok returns only the handle built from its
\* arguments, and the vault then holds the request's secret under the
\* handle's id; until revoke(h) or a vault delete of h.id the vault keeps
\* holding a secret under h.id, that of the request unless a vault store under
\* h.id has replaced it; during that time a get_token(h) made while the vault
\* is locked returns the vault's error and leaves the entry, one made while it
\* is unlocked passes the vault's check, and one that has passed the check
\* returns Ok with the secret held under h.id.
C22_HandleBacksSecret ==
    /\ []HandlesHeld
    /\ [][/\ \A t \in Tasks : RequestReturnsHandle(t)
          /\ EntriesLeaveByDelete
          /\ \A t \in Tasks, h \in HandlesInUse :
                /\ (get_token_body(t) /\ broker_pc[t].handle = Some(h)) =>
                        /\ broker_ret' = BrokerRet("get_token", Some(h), "Ok",
                                                   Some(vault_entries[h.id]))
                        /\ ~vault_hist[h.id].replaced =>
                                broker_ret'.val = Some("placeholder-token")
                /\ get_token(t, h) =>
                        IF locked
                        THEN /\ broker_ret' = BrokerRet("get_token", Some(h), "Locked", None)
                             /\ broker_pc'[t] = BrokerIdle
                             /\ vault_entries' = vault_entries
                             /\ vault_hist' = vault_hist
                        ELSE broker_pc'[t] = [op |-> "get_token", handle |-> Some(h)]
       ]_vars

\* after a lock() of the vault a get_token has returned the request's secret
\* for a handle in use, whose provider and scopes are those of a request for
\* the second provider
C22_Witness ==
    /\ broker_ret.op = "get_token"
    /\ broker_ret.kind = "Ok"
    /\ broker_ret.val = Some("placeholder-token")
    /\ vault_snap # None
    /\ \E h \in broker_ret.handle :
        /\ h \in HandlesInUse
        /\ h.provider = "github"
        /\ h.scopes = <<"read", "write">>

\* C24: request_token_device_code for a provider that is not registered returns
\* the NotFound error at once, with no handle and nothing stored, and no call
\* is ever past its lookup for a provider that is not registered.
C24_DeviceCodeUnregistered ==
    /\ [](\A t \in Tasks :
            broker_pc[t].op = "device_authorization" => broker_pc[t].provider \in DOMAIN providers)
    /\ [][\A t \in Tasks, p \in ProviderNames, sc \in ScopeLists :
            (request_token_device_code(t, p, sc) /\ p \notin DOMAIN providers) =>
                /\ broker_ret' = BrokerRet("request_token_device_code", None, "NotFound", None)
                /\ UNCHANGED <<broker_pc, uuids, vaultVars>>
       ]_vars

\* a device-code request has failed for want of the provider
C24_Witness ==
    /\ broker_ret.op = "request_token_device_code"
    /\ broker_ret.kind = "NotFound"
    /\ vault_entries = HashMap_new

\* C25: request_token_pkce for a provider that is not registered returns the
\* NotFound error, with no handle and nothing stored.
C25_PkceUnregistered ==
    [][\A t \in Tasks, p \in ProviderNames, sc \in ScopeLists :
        (request_token_pkce(t, p, sc) /\ p \notin DOMAIN providers) =>
            /\ broker_ret' = BrokerRet("request_token_pkce", None, "NotFound", None)
            /\ UNCHANGED <<broker_pc, uuids, vaultVars>>
    ]_vars


\* C26: validate returns Ok exactly for a manifest with schema_version "0.1"
\* and a non-empty entry, whatever its capabilities are; load returns a
\* manifest exactly when it returns Ok, and then one with schema_version "0.1"
\* and a non-empty entry, the one the file holds.
C26_ValidateIff ==
    /\ manifest_ret.op = "validate" =>
        \A m \in manifest_ret.arg :
            (manifest_ret.kind = "Ok") = (m.schema_version = "0.1" /\ m.entry # "")
    /\ manifest_ret.op = "load" =>
        /\ (manifest_ret.kind = "Ok") = (manifest_ret.val # None)
        /\ \A m \in manifest_ret.val, dir \in manifest_ret.arg :
           \A c \in fs[dir].manifest :
            /\ m.schema_version = "0.1" /\ m.entry # ""
            /\ c \in TomlTables
            /\ m.schema_version = c.schema_version /\ m.entry = c.entry
            /\ c.name = Some(m.name) /\ m.capabilities = c.capabilities

\* validate has accepted a manifest with a capability it warns about, and load
\* has returned one
C26_Witness ==
    \/ /\ manifest_ret.op = "validate"
       /\ manifest_ret.kind = "Ok"
       /\ manifest_ret.warned # {}
    \/ /\ manifest_ret.op = "load"
       /\ \E m \in manifest_ret.val : validate_warnings(m) # {}


\* the directory holds a manifest.toml that parses and passes validation
ValidManifest(dir) ==
    \E c \in fs[dir].manifest :
        /\ c \in TomlTables
        /\ c.name # None
        /\ c.sandbox \in {"wasm", "native"}
        /\ c.schema_version = "0.1"
        /\ c.entry # ""

\* the name in the manifest.toml of a directory that holds a valid one
NameOf(dir) == unwrap(unwrap(fs[dir].manifest).name)

\* C27: a register that returns Ok leaves, under the name of the directory's
\* manifest, the AgentInfo of that manifest and directory with enabled = true,
\* whatever the name had before; the entries of other names are as they were;
\* get returns the entry of the name; every entry is keyed by its manifest's name.
C27_LastWriteWins ==
    /\ [](\A n \in DOMAIN agents : agents[n].manifest.name = n)
    /\ [][/\ \A dir \in Dirs :
                (registry_ret'.op = "register" /\ registry_ret'.kind = "Ok" /\ register(dir)) =>
                    /\ ValidManifest(dir)
                    /\ DOMAIN agents' = DOMAIN agents \cup {NameOf(dir)}
                    /\ agents'[NameOf(dir)] =
                            AgentInfo(unwrap(Manifest_load(dir).val), dir, TRUE)
                    /\ agents'[NameOf(dir)].manifest.name = NameOf(dir)
                    /\ \A n \in DOMAIN agents \ {NameOf(dir)} : agents'[n] = agents[n]
          /\ \A n \in AgentNames :
                (registry_ret'.op = "get" /\ get(n)) => registry_ret'.val = (IF n \in DOMAIN agents THEN {agents[n]} ELSE {})
       ]_vars

\* a register has replaced an entry that was disabled, beside an entry of
\* another name
C27_Witness ==
    /\ registry_ret.op = "register"
    /\ registry_ret.kind = "Ok"
    /\ \E old \in registry_ret.val : ~old.enabled
    /\ Cardinality(DOMAIN agents) = 2

\* C28: a register of a directory with no manifest.toml, or with one that does
\* not parse or does not pass validation, returns an error and leaves the
\* registry as it was.
C28_FailedRegisterNoChange ==
    [][\A dir \in Dirs :
        (registry_ret'.op = "register" /\ ~ValidManifest(dir) /\ register(dir)) =>
            /\ registry_ret'.kind # "Ok"
            /\ agents' = agents
    ]_vars

\* a register has failed on validation with a disabled entry in the registry
C28_Witness ==
    /\ registry_ret.op = "register"
    /\ registry_ret.kind \in {"SchemaVersion", "EmptyEntry"}
    /\ \E n \in DOMAIN agents : ~agents[n].enabled

\* C29: discover returns Ok(()), whatever path it is given and whatever its
\* entries are; when it returns from the agents directory, every directory
\* with a valid manifest has its name registered; and no entry of the registry
\* is ever of a directory without a valid manifest.
C29_DiscoverTolerant ==
    /\ [](\A n \in DOMAIN agents :
            /\ ValidManifest(agents[n].base_dir)
            /\ NameOf(agents[n].base_dir) = n)
    /\ [](registry_ret.op = "discover" => registry_ret.kind = "Ok")
    /\ [][\A t \in Tasks :
            (discover_pc[t] # None /\ discover_pc'[t] = None) =>
                /\ registry_ret'.op = "discover" /\ registry_ret'.kind = "Ok"
                /\ unwrap(discover_pc[t]).agents_dir = "agents" =>
                        \A dir \in Dirs : ValidManifest(dir) => NameOf(dir) \in DOMAIN agents'
       ]_vars


\* C31: the events an execute call returns carry, per agent_id, sequences
\* that increase strictly along the result and are strictly greater than
\* every sequence returned for that agent_id by the calls before.
C31_SequenceMonotonic ==
    [][(exec_ret'.kind = "Ok" /\ \E call \in ExecuteCalls : exec_pc[call].at = "loop" /\ exec_pc'[call] = NoExec) =>
        /\ \A j, k \in DOMAIN exec_ret'.events :
            (j < k /\ exec_ret'.events[j].agent_id = exec_ret'.events[k].agent_id) =>
                exec_ret'.events[j].sequence < exec_ret'.events[k].sequence
        /\ \A k \in DOMAIN exec_ret'.events :
            \A earlier \in exec_hist[exec_ret'.events[k].agent_id] :
                earlier < exec_ret'.events[k].sequence
    ]_vars


\* C32: with the vault locked, request_token_pkce, request_token_device_code
\* once its handshake is over, get_token and revoke return an error, no handle
\* and no secret, and leave the vault's entries as they were; with the vault
\* unlocked the same calls pass the vault's check, and the requests and the
\* revoke of the in-memory vault then return Ok.
C32_LockedVaultBlocks ==
    [][\A t \in Tasks :
        /\ (locked /\ broker_pc[t].op \in {"idle", "device_authorization"}) =>
            /\ \A p \in ProviderNames, sc \in ScopeLists :
                request_token_pkce(t, p, sc) =>
                    /\ broker_ret' = BrokerRet("request_token_pkce", None, "Locked", None)
                    /\ broker_pc'[t] = BrokerIdle
                    /\ vault_entries' = vault_entries
            /\ device_authorization(t) =>
                    /\ broker_ret'.kind \in {"Locked", "Request"}
                    /\ broker_ret'.handle = None /\ broker_ret'.val = None
                    /\ broker_pc'[t] = BrokerIdle
                    /\ vault_entries' = vault_entries
            /\ \A h \in Handles :
                (get_token(t, h) \/ OAuthBroker_revoke(t, h)) =>
                    /\ broker_ret'.kind = "Locked" /\ broker_ret'.val = None
                    /\ broker_pc'[t] = BrokerIdle
                    /\ vault_entries' = vault_entries
        /\ (~locked /\ broker_pc'[t] # broker_pc[t]) =>
            /\ \A p \in ProviderNames, sc \in ScopeLists :
                request_token_pkce(t, p, sc) => broker_pc'[t].op = "request_token_pkce"
            /\ \A h \in Handles :
                /\ get_token(t, h) => broker_pc'[t].op = "get_token"
                /\ OAuthBroker_revoke(t, h) => broker_pc'[t].op = "revoke"
        /\ (/\ broker_pc'[t] # broker_pc[t]
            /\ \/ request_token_pkce_body(t)
               \/ request_token_device_code_body(t)
               \/ OAuthBroker_revoke_body(t)) => broker_ret'.kind = "Ok"
    ]_vars

\* the vault is locked and a get_token for a handle whose secret it holds has
\* been refused
C32_Witness ==
    /\ locked
    /\ broker_ret.op = "get_token"
    /\ broker_ret.kind = "Locked"
    /\ \E h \in broker_ret.handle : h.id \in DOMAIN vault_entries


\* ------------------------------------- claims: CapabilityManager, continued

\* the grants of a list whose revoked flag is not set, in their order
Unrevoked(gs) == SelectSeq(gs, LAMBDA g : g.revoked = FALSE)

\* the grants of a list that are not revoked and not past their expires_at at
\* time t, in their order
ValidAt(gs, t) ==
    SelectSeq(gs, LAMBDA g : g.revoked = FALSE /\ \A e \in g.expires_at : t <= e)

\* C33: cleanup_expired() removes exactly the grants with revoked = true and
\* keeps every other grant in its original order, a grant past its expires_at
\* that was never revoked included; check(c) for every c and active_grants()
\* give the same result just before and just after it.
C33_CleanupRemovesRevokedOnly ==
    [][(cap_ret'.op = "cleanup_expired" /\ cleanup_expired) =>
          /\ grants' = Unrevoked(grants)
          /\ \A i \in DOMAIN grants :
                (~grants[i].revoked /\ \E e \in grants[i].expires_at : now > e) =>
                    \E j \in DOMAIN grants' : grants'[j] = grants[i]
          /\ \A c \in Caps : check_any(grants', now', c) = check_any(grants, now, c)
          /\ ValidAt(grants', now') = ValidAt(grants, now)]_vars

\* C33 witness: cleanup_expired() has removed a grant and the list still holds
\* a grant that is past its expires_at
C33_Witness ==
    /\ cap_ret.op = "cleanup_expired"
    /\ Len(grants) < issued
    /\ \E i \in DOMAIN grants :
         ~grants[i].revoked /\ \E e \in grants[i].expires_at : now > e


\* C34: grant does not deduplicate.  Each grant(c, d) builds one grant for c
\* with revoked = false and expires_at = now + d and appends it, and only it,
\* to the list, leaving the grants already there as they are, so grants for
\* one capability coexist; check(c) returns true as long as one of them is
\* valid, for instance the grant without expiry after a short-lived one has
\* expired.
C34_GrantAppends ==
    [][/\ \A c \in Caps, d \in Durations :
            grant(c, d) =>
                /\ grants' = grants
                /\ \E pc \in grant_pc' \ grant_pc :
                     /\ grant_pc' = grant_pc \cup {pc}
                     /\ pc.grant.capability = c
                     /\ pc.grant.revoked = FALSE
                     /\ pc.grant.expires_at = {now + x : x \in d}
       /\ \A pc \in grant_pc :
            (cap_ret'.op = "grant" /\ grants_push(pc)) =>
                /\ Len(grants') = Len(grants) + 1
                /\ SubSeq(grants', 1, Len(grants)) = grants
                /\ grants'[Len(grants')] = pc.grant
                /\ grants'[Len(grants')].revoked = FALSE
                /\ Cardinality({i \in DOMAIN grants' :
                                    grants'[i].capability = pc.grant.capability})
                     = Cardinality({i \in DOMAIN grants :
                                    grants[i].capability = pc.grant.capability}) + 1
       /\ \A c \in Caps :
            (cap_ret'.op = "check" /\ check(c)) =>
                cap_ret'.ok = (\E i \in DOMAIN grants :
                                  grants[i].capability = c /\ is_valid(grants[i], now))]_vars

\* C34 witness: two grants for one capability coexist, the first has expired,
\* the second has no expiry, and check() has returned true for the capability
C34_Witness ==
    /\ cap_ret.op = "check"
    /\ cap_ret.ok
    /\ Len(grants) = 2
    /\ Some(grants[1].capability) = cap_ret.cap
    /\ Some(grants[2].capability) = cap_ret.cap
    /\ ~grants[1].revoked
    /\ \E e \in grants[1].expires_at : now > e
    /\ grants[2].expires_at = None
    /\ ~grants[2].revoked


\* C35: a successful revoke(c) sets revoked = true on every grant whose
\* capability equals c and changes nothing else: the grants for another
\* capability keep their revoked flag, granted_at and expires_at, the number
\* and the order of the grants stay, and check(c') for c' # c returns what it
\* returned before.
C35_RevokeFrame ==
    [][\A c \in Caps :
         (cap_ret'.op = "revoke" /\ cap_ret'.ok /\ revoke(c)) =>
            /\ Len(grants') = Len(grants)
            /\ \A i \in DOMAIN grants :
                 /\ grants'[i].id = grants[i].id
                 /\ grants'[i].capability = grants[i].capability
                 /\ grants'[i].granted_at = grants[i].granted_at
                 /\ grants'[i].expires_at = grants[i].expires_at
                 /\ grants[i].capability = c => grants'[i].revoked
                 /\ grants[i].capability # c => grants'[i].revoked = grants[i].revoked
            /\ \A other \in Caps \ {c} :
                 check_any(grants', now', other) = check_any(grants, now, other)]_vars

\* C35 witness: revoke(c) has succeeded while the list holds a grant for c,
\* now revoked, and a valid grant for another capability
C35_Witness ==
    /\ cap_ret.op = "revoke"
    /\ cap_ret.ok
    /\ \E i, j \in DOMAIN grants :
         /\ Some(grants[i].capability) = cap_ret.cap
         /\ grants[i].revoked
         /\ Some(grants[j].capability) # cap_ret.cap
         /\ is_valid(grants[j], now)


\* C36: active_grants() returns exactly the grants valid at the time of the
\* call, as copies: there is an instant of the call at which the result is the
\* list of the grants that are not revoked and not past their expires_at, and
\* at which a capability appears in the result iff check() is true for it; the
\* list is left as it is.
C36_ActiveGrantsExact ==
    [][\A task \in Tasks : \A pc \in active_pc[task] :
         (cap_ret'.op = "active_grants" /\ active_pc'[task] = None
            /\ active_grants_filter(task)) =>
            /\ grants' = grants
            /\ \E t \in pc.since .. now :
                 /\ cap_ret'.val = ValidAt(grants, t)
                 /\ \A c \in Caps :
                       (\E k \in DOMAIN cap_ret'.val : cap_ret'.val[k].capability = c)
                           <=> check_any(grants, t, c)]_vars


\* ---------------------------------------- claims: AgentRegistry, continued

\* C37: get_by_sandbox(mode) returns exactly the registered agents whose
\* manifest.sandbox is mode and whose enabled flag is true, so an agent that
\* set_enabled(name, false) has disabled is not returned; set_enabled on a
\* name that is not registered fails and changes nothing.
C37_GetBySandboxEnabledOnly ==
    [][/\ \A mode \in SandboxModes :
            (registry_ret'.op = "get_by_sandbox" /\ get_by_sandbox(mode)) =>
               /\ \A name \in AgentNames :
                     (\E info \in registry_ret'.val : info.manifest.name = name)
                        <=> /\ name \in DOMAIN agents
                            /\ agents[name].manifest.sandbox = mode
                            /\ agents[name].enabled = TRUE
               /\ \A info \in registry_ret'.val :
                     /\ info.manifest.name \in DOMAIN agents
                     /\ info = agents[info.manifest.name]
               /\ agents' = agents
       /\ \A name \in AgentNames, enabled \in BOOLEAN :
            (registry_ret'.op = "set_enabled" /\ set_enabled(name, enabled)) =>
               IF name \in DOMAIN agents
               THEN /\ registry_ret'.kind = "Ok"
                    /\ agents'[name].enabled = enabled
               ELSE /\ registry_ret'.kind = "NotFound"
                    /\ agents' = agents]_vars

\* C37 witness: get_by_sandbox(mode) has left out a registered agent of the
\* sandbox mode asked for that is disabled, while another agent is enabled
C37_Witness ==
    /\ registry_ret.op = "get_by_sandbox"
    /\ \E other \in DOMAIN agents : agents[other].enabled
    /\ \E name \in DOMAIN agents :
         /\ Some(agents[name].manifest.sandbox) = registry_ret.arg
         /\ ~agents[name].enabled
         /\ agents[name] \notin registry_ret.val


\* ----------------------------------------- claims: AgentRuntime, continued

\* C38: execute dispatches a request to exactly one backend path, chosen by
\* manifest.sandbox: a Native manifest is handled by the native path only, a
\* Wasm manifest by the WASM path only, and the events returned carry the
\* input that was passed to execute.
C38_DispatchBySandbox ==
    [][\A call \in ExecuteCalls :
        (exec_ret'.kind = "Ok" /\ exec_pc[call].at = "loop" /\ exec_pc'[call] = NoExec) =>
          \A m \in exec_pc[call].manifest, input \in exec_pc[call].input :
             /\ m.sandbox = "Native" =>
                   /\ exec_ret'.dispatched = Some("native")
                   /\ exec_ret'.events = execute_native(m, input)
                   /\ \A k \in DOMAIN exec_ret'.events :
                         exec_ret'.events[k].agent_id = "native-agent"
             /\ m.sandbox = "Wasm" =>
                   /\ exec_ret'.dispatched = Some("wasm")
                   /\ exec_ret'.events = execute_wasm(m, input)
                   /\ \A k \in DOMAIN exec_ret'.events :
                         exec_ret'.events[k].agent_id = "wasm-agent"
             /\ exec_ret'.events # <<>>
             /\ \A k \in DOMAIN exec_ret'.events :
                   /\ exec_ret'.events[k].event_type.type = "Input"
                   /\ exec_ret'.events[k].event_type.prompt = input]_vars

\* C38 witness: a call has dispatched to the native path and one to the WASM
\* path, and the latest returned an event with its input
C38_Witness ==
    /\ exec_ret.kind = "Ok"
    /\ exec_ret.dispatched = Some("native")
    /\ exec_hist["wasm-agent"] # None
    /\ Len(exec_ret.events) = 1
    /\ exec_ret.events[1].agent_id = "native-agent"
    /\ exec_ret.events[1].event_type.prompt = ""

\* the runtime's view of a manifest, completed to one that passes validation
Accepted(m) == Manifest("0.1", m.name, "agent.wasm", m.sandbox, m.capabilities)

\* C39: a manifest that Manifest::validate accepts can be rejected at
\* execution: when a declared capability string fails Capability::parse, as
\* "network" and a string with a colon do, execute returns an error before any
\* dispatch and returns no events, even if every other declared capability is
\* granted.
C39_UnparsedCapabilityRejects ==
    [][\A call \in ExecuteCalls :
        (exec_pc[call].at = "loop" /\ exec_pc'[call] = NoExec) =>
          \A m \in exec_pc[call].manifest :
             (\E k \in DOMAIN m.capabilities : Capability_parse(m.capabilities[k]) = None) =>
                /\ Manifest_validate(Accepted(m)).kind = "Ok"
                /\ exec_ret'.kind = "Err"
                /\ exec_ret'.events = <<>>
                /\ exec_ret'.dispatched = None
                /\ exec_hist' = exec_hist]_vars

\* C39 witness: the call has returned an error after a check of a declared
\* capability returned true
C39_Witness ==
    /\ exec_ret.kind = "Err"
    /\ exec_ret.seen # <<>>
    /\ \A k \in DOMAIN exec_ret.seen : exec_ret.seen[k].ok


\* ------------------------------------------------------ claims: the locks

\* C40: deadlock freedom.  Under any interleaving of concurrent calls of the
\* CapabilityManager, the ConsentLedger, the TokenVault, the AgentRegistry and
\* the OAuthBroker, with external I/O returning, no task waits for ever for a
\* lock: a task never asks for a lock it holds, a task that waits holds at
\* most the broker's provider-map read guard and waits for a lock of the
\* vault, and under fair scheduling every call that has started completes.
C40_DeadlockFreedom ==
    /\ [](\A t \in Tasks : \A l \in waited_by(t) :
                /\ l \notin held_by(t)
                /\ held_by(t) \subseteq {"providers"}
                /\ held_by(t) # {} => l \in {"locked", "in_memory_store"})
    /\ \A t \in Tasks : (task_pc[t] # <<>>) ~> (task_pc[t] = <<>>)

\* C40 witness: a device-code call holds the provider-map read guard and
\* waits for a lock of the vault, of which another task holds a guard
C40_Witness ==
    \E t \in Tasks :
        /\ "providers" \in held_by(t)
        /\ \E l \in waited_by(t) \cap {"locked", "in_memory_store"} :
              \E other \in Tasks \ {t} : l \in held_by(other)

====
